---------------------------- MODULE Spec2Model ----------------------------
(***************************************************************************)
(* The coordination layer of OpenBrowserClaw: the Orchestrator's inbound   *)
(* queue, its state machine, the agent-worker boundary and the Router.     *)
(*                                                                         *)
(* JavaScript runs the coordinator on one thread: a handler runs without   *)
(* interruption up to its next `await`, and other handlers may run while   *)
(* it is suspended.  Every action below is one such uninterrupted stretch  *)
(* of a handler, from a call or the completion of an awaited operation to  *)
(* the next await that can let another handler in.                         *)
(*                                                                         *)
(* Text is a sequence of one-character strings.  The sixteen characters of *)
(* the scheduler's marker are written as the single token SCHEDULED.       *)
(***************************************************************************)
EXTENDS Integers, Sequences, FiniteSets, TLC

\* ------------------------------------------------------------------ bounds
MaxMsgs == 2
MaxSched == 1
MaxCompact == 1
MaxSets == 1
MaxLen == 3
MaxNameLen == 2
MaxBurst == 3
MaxCompactMsgs == 1
MaxThrows == 1
MaxSchedMsgs == 1
MaxSetterCalls == 2

MaxFailures == 1
MaxRouteLen == 3
MaxPieces == 8
MaxXmlLen == 3
MaxXmlMsgs == 2
MaxResets == 1
MaxMatrixCalls == 4
MaxProgress == 2
MaxTicks == 2
MaxTelegramCalls == 2

\* ------------------------------------------------------------ text helpers
NULL == "null"

IsSpace(c) == c = " "

IsWord(c) == c \in {"a", "A", "b"}

Lower(c) == IF c = "A" THEN "a" ELSE c

IsMeta(c) == c \in {".", "*", "+", "?", "^", "$", "{", "}", "(", ")", "|", "[", "]", "\\"}

RECURSIVE TrimStart(_)
TrimStart(s) ==
    IF s # <<>> /\ IsSpace(Head(s)) THEN TrimStart(Tail(s)) ELSE s

RECURSIVE TrimEnd(_)
TrimEnd(s) ==
    IF s # <<>> /\ IsSpace(s[Len(s)]) THEN TrimEnd(SubSeq(s, 1, Len(s) - 1)) ELSE s

Trim(s) == TrimEnd(TrimStart(s))

StartsWith(s, p) == Len(s) >= Len(p) /\ SubSeq(s, 1, Len(p)) = p

\* --------------------------------------------------------- trigger pattern
\* name.replace(/[.*+?^${}()|[\]\\]/g, '\\$&')
RECURSIVE EscapeRegExp(_)
EscapeRegExp(name) ==
    IF name = <<>> THEN <<>>
    ELSE (IF IsMeta(Head(name)) THEN <<"\\", Head(name)>> ELSE <<Head(name)>>)
         \o EscapeRegExp(Tail(name))

\* The atoms the regular-expression compiler reads from a pattern source:
\* a backslash makes the next character a literal, an unescaped dot matches
\* any character, every other character of the modelled alphabet is a literal.
RECURSIVE CompileAtoms(_)
CompileAtoms(src) ==
    IF src = <<>> THEN <<>>
    ELSE IF Head(src) = "\\" /\ Len(src) >= 2
         THEN <<[kind |-> "lit", ch |-> src[2]]>> \o CompileAtoms(Tail(Tail(src)))
    ELSE IF Head(src) = "."
         THEN <<[kind |-> "any", ch |-> "."]>> \o CompileAtoms(Tail(src))
    ELSE <<[kind |-> "lit", ch |-> Head(src)]>> \o CompileAtoms(Tail(src))

BuildTriggerPatternUnescaped(name) == CompileAtoms(name)

\* new RegExp(`(^|\\s)@${escaped}\\b`, 'i'): the value is the atom list of the
\* name part; the fixed prefix and suffix are applied by RegExpTest.
buildTriggerPattern(name) == CompileAtoms(EscapeRegExp(name))

AtomMatches(atom, c) ==
    \/ atom.kind = "any"
    \/ atom.kind = "lit" /\ Lower(atom.ch) = Lower(c)

WordAt(s, k) == k >= 1 /\ k <= Len(s) /\ IsWord(s[k])

\* \b between positions k-1 and k
WordBoundary(s, k) == WordAt(s, k - 1) # WordAt(s, k)

\* pattern.test(s) for /(^|\s)@<atoms>\b/i: i is the position of the '@'
RegExpTest(atoms, s) ==
    \E i \in 1..Len(s) :
        /\ i = 1 \/ IsSpace(s[i - 1])
        /\ s[i] = "@"
        /\ i + Len(atoms) <= Len(s)
        /\ \A j \in 1..Len(atoms) : AtomMatches(atoms[j], s[i + j])
        /\ WordBoundary(s, i + Len(atoms) + 1)


\* ------------------------------------------------------- program constants
ASSISTANT_NAME == <<"a">>

DEFAULT_GROUP_ID == <<"b", "r", ":", "m", "a", "i", "n">>

DEFAULT_OLLAMA_URL == <<"u">>

TG_GROUP == <<"t", "g", ":", "4", "2">>

SCHEDULED == "[SCHEDULED TASK]"

ERROR_PREFIX == "(warning sign) Error: "

Groups == {DEFAULT_GROUP_ID, TG_GROUP}

\* what arrives in the concurrency model: a text in the browser's own group,
\* a mention and a plain text in a Telegram chat
Inbound == {<<DEFAULT_GROUP_ID, <<"b">>>>, <<TG_GROUP, <<"@", "a">>>>,
            <<TG_GROUP, <<"b">>>>}

\* a message of each group that names nobody
PlainInbound == {<<DEFAULT_GROUP_ID, <<"b">>>>, <<TG_GROUP, <<"b">>>>}

\* a message of the browser's group and a Telegram message naming the assistant
MixedInbound == {<<DEFAULT_GROUP_ID, <<"b">>>>, <<TG_GROUP, <<"@", "a">>>>}

\* the terminal envelopes that answer an 'invoke'
ReplyKinds == {"response", "error"}

Providers == {"anthropic", "ollama"}

\* what the getter of an optional adapter returns: null or the adapter
Getters(kind) == {NULL, kind}

Names == {<<"a">>, <<"b">>}

Keys == {<<>>, <<"k">>}

Urls == {<<>>, <<" ">>, <<"u">>}

\* ------------------------------------------------------------------- state
VARIABLES
    state,                  \* Orchestrator.state
    messageQueue,           \* Orchestrator.messageQueue
    processing,             \* Orchestrator.processing
    pendingScheduledTasks,  \* Orchestrator.pendingScheduledTasks
    provider, apiKey, ollamaUrl,
    assistantName, triggerPattern,
    telegram,               \* Orchestrator._telegram
    db,                     \* the messages store behind saveMessage
    saving,                 \* enqueue calls suspended in `await saveMessage`
    invoking,               \* invokeAgent calls suspended before postMessage
    worker,                 \* envelopes posted to the worker, not yet answered
    delivering,             \* handleWorkerMessage calls suspended in an await
    nmsgs, nsched, ncompact, nsets,
    appended,               \* history: the numbers of the messages pushed
    posted,                 \* history: envelopes in the order of postMessage
    saves,                  \* history: saveMessage calls completed, per id
    sent,                   \* history: channel.send calls completed
    finished,               \* history: terminal envelopes fully handled
    chimes,                 \* history: playNotificationChime calls, per group
    errors,                 \* history: 'error' events emitted, per group
    thrown,                 \* history: invokeAgent calls that ended in an exception
    listeners,              \* EventBus.listeners for one event kind, in insertion order
    called,                 \* the callbacks the latest emit invoked, in order
    raised,                 \* whether the latest emit threw to its caller
    config,                 \* the config store behind getConfig / setConfig
    setting,                \* setter calls suspended in an await
    unhandled,              \* history: handler promises rejected with nobody to catch them
    resets,                 \* history: 'session-reset' events emitted, per group
    telemetry,              \* history: non-terminal envelopes handled, per kind
    down,                   \* what shutdown() has stopped: scheduler, adapters, worker
    mx,                     \* the MatrixChannel: its fields, clients and pending logins
    probe,                  \* the latest call of a Router function: inputs and outcome
    tgs                     \* the Telegram adapters created: the one in _telegram, the
                            \* started ones, and the calls that are loading one

cfgVars == <<provider, apiKey, ollamaUrl, assistantName, triggerPattern, telegram>>

cntVars == <<nmsgs, nsched, ncompact, nsets>>

busVars == <<listeners, called, raised>>

storeVars == <<config, setting>>

auxVars == <<unhandled, resets, telemetry, down, mx, probe, tgs>>

vars == <<state, messageQueue, processing, pendingScheduledTasks, cfgVars, db,
          saving, invoking, worker, delivering, cntVars, appended, posted,
          saves, sent, finished, chimes, errors, thrown, busVars, storeVars,
          auxVars>>

\* ---------------------------------------------------------------- helpers
IsConfiguredAlways == TRUE

isConfigured ==
    IF provider = "ollama" THEN Len(Trim(ollamaUrl)) > 0 ELSE Len(apiKey) > 0

ChannelOfMatrixAsBrowser(groupId) ==
    IF StartsWith(groupId, <<"t", "g", ":">>) THEN "telegram"
    ELSE IF StartsWith(groupId, <<"b", "s", "k", "y", ":">>) THEN "bluesky"
    ELSE "browser"

\* the channel kind the coordinator stamps on messages it creates itself
ChannelOf(groupId) ==
    IF StartsWith(groupId, <<"t", "g", ":">>) THEN "telegram"
    ELSE IF StartsWith(groupId, <<"b", "s", "k", "y", ":">>) THEN "bluesky"
    ELSE IF StartsWith(groupId, <<"m", "x", ":">>) THEN "matrix"
    ELSE "browser"

FindChannelBrowserOnly(groupId) == "browser"

\* Router.findChannel; the Bluesky and Matrix getters return null in the
\* default build (ENABLE_BLUESKY and ENABLE_MATRIX are false).
findChannel(groupId) ==
    IF StartsWith(groupId, <<"t", "g", ":">>) THEN telegram
    ELSE IF StartsWith(groupId, <<"b", "s", "k", "y", ":">>) THEN NULL
    ELSE IF StartsWith(groupId, <<"m", "x", ":">>) THEN NULL
    ELSE "browser"

Bump(f, k) == IF k \in DOMAIN f THEN [f EXCEPT ![k] = @ + 1] ELSE f @@ (k :> 1)

Count(f, k) == IF k \in DOMAIN f THEN f[k] ELSE 0

\* saveMessage(stored) completing: the record is in the store
saveMessage(store, stored) == store \cup {stored}

ClearAllMessages(store, groupId) == {}

\* clearGroupMessages(groupId) completing
clearGroupMessages(store, groupId) == {m \in store : m.groupId # groupId}

\* messageQueue.shift(): the message removed and the queue left
ShiftLast(q) == [msg |-> q[Len(q)], rest |-> SubSeq(q, 1, Len(q) - 1)]

Shift(q) == [msg |-> Head(q), rest |-> Tail(q)]

\* enqueue, line 468: every message is handed to saveMessage
AwaitSaveTriggersOnly(pending, stored) ==
    IF stored.isTrigger THEN pending \cup {stored} ELSE pending

AwaitSave(pending, stored) == pending \cup {stored}

\* enqueue, lines 463-466: only a triggering message is pushed
Push(q, msg, isTrigger) == IF isTrigger THEN Append(q, msg) ELSE q

\* encryptValue / decryptValue: the stored form of the key differs from the key
encryptValue(key) == <<"#">> \o key

decryptValue(stored) == Tail(stored)

\* setConfig(key, value) completing
setConfig(store, key, value) == [store EXCEPT ![key] = value]

\* a setter suspended in its await: the value on its way to the config store
AwaitSetConfig(pending, n, key, value) ==
    pending \cup {[n |-> n, key |-> key, value |-> value]}

\* a MatrixChannel as constructed and configured (lines 117-136): not running,
\* no client (`client` is empty or holds the one client assigned to the
\* field); `live` are the clients created that hold a timeline listener,
\* `logins` the start() calls suspended in `await tmpClient.login(...)`
MatrixNew ==
    [running |-> FALSE, client |-> {}, live |-> {}, logins |-> {},
     made |-> 0, last |-> "none"]

\* The Telegram adapters once init() has loaded the one for a stored token:
\* `current` is empty or holds the adapter assigned to _telegram, `started`
\* the adapters started and not stopped, `calls` the init and
\* configureTelegram calls suspended in an await, `token` whether a bot token
\* is stored.
TelegramLoaded(tg) ==
    [current |-> IF tg = NULL THEN {} ELSE {0},
     started |-> IF tg = NULL THEN {} ELSE {0},
     calls |-> {}, made |-> 0, token |-> tg # NULL]

\* the state init() leaves, for a stored assistant name, a Telegram channel
\* that is loaded only when a bot token is stored, and a stored key (empty
\* when none is stored or the stored one cannot be decrypted)
BootFields(name, tg, key) ==
    /\ state = "idle"
    /\ messageQueue = <<>>
    /\ processing = FALSE
    /\ pendingScheduledTasks = {}
    /\ provider = "anthropic"
    /\ apiKey = key
    /\ ollamaUrl = DEFAULT_OLLAMA_URL
    /\ assistantName = name
    /\ triggerPattern = buildTriggerPattern(name)
    /\ telegram = tg
    /\ db = {}
    /\ saving = {}
    /\ invoking = {}
    /\ worker = {}
    /\ delivering = {}
    /\ nmsgs = 0 /\ nsched = 0 /\ ncompact = 0 /\ nsets = 0
    /\ appended = {}
    /\ posted = <<>>
    /\ saves = <<>>
    /\ sent = {}
    /\ finished = <<>>
    /\ chimes = <<>>
    /\ errors = <<>>
    /\ thrown = {}
    /\ listeners = <<>>
    /\ called = <<>>
    /\ raised = FALSE
    /\ config = [provider |-> "anthropic", apiKey |-> encryptValue(key),
                 ollamaUrl |-> DEFAULT_OLLAMA_URL, assistantName |-> name]
    /\ setting = {}
    /\ unhandled = {}
    /\ resets = <<>>
    /\ telemetry = <<>>
    /\ down = [scheduler |-> FALSE, adapters |-> FALSE, worker |-> FALSE]
    /\ mx = MatrixNew
    /\ probe = [op |-> "none"]

BootWith(name, tg, key) ==
    /\ BootFields(name, tg, key)
    /\ tgs = TelegramLoaded(tg)

Boot(name, tg) == BootWith(name, tg, <<"k">>)

Init == \E tg \in {NULL, "telegram"} : Boot(ASSISTANT_NAME, tg)

\* --------------------------------------------------------------- invokeAgent
\* The synchronous start of invokeAgent(groupId, triggerContent), lines
\* 507-528: the state is set, and a prompt that carries the scheduler's marker
\* is recorded in the pending-chime set and its 'Scheduler' message is handed to
\* saveMessage.  `others` are the invokeAgent calls already suspended.
InvokeAgentStart(others, groupId, content, src, msg) ==
    /\ state' = "thinking"
    /\ IF StartsWith(content, <<SCHEDULED>>)
       THEN /\ pendingScheduledTasks' = pendingScheduledTasks \cup {groupId}
            /\ invoking' = others \cup
                 {[tag |-> <<src, msg>>, src |-> src, groupId |-> groupId,
                   content |-> content, msg |-> msg, pc |-> "saveScheduled"]}
       ELSE /\ pendingScheduledTasks' = pendingScheduledTasks
            /\ invoking' = others \cup
                 {[tag |-> <<src, msg>>, src |-> src, groupId |-> groupId,
                   content |-> content, msg |-> msg, pc |-> "load"]}

ProcessQueueUngated(flag, others) ==
    IF messageQueue = <<>>
    THEN /\ processing' = flag
         /\ invoking' = others
         /\ UNCHANGED <<messageQueue, state, pendingScheduledTasks, errors>>
    ELSE IF ~isConfigured
    THEN /\ messageQueue' = Shift(messageQueue).rest
         /\ errors' = Bump(errors, Shift(messageQueue).msg.groupId)
         /\ processing' = flag
         /\ invoking' = others
         /\ UNCHANGED <<state, pendingScheduledTasks>>
    ELSE /\ processing' = TRUE
         /\ messageQueue' = Shift(messageQueue).rest
         /\ InvokeAgentStart(others, Shift(messageQueue).msg.groupId,
                             Shift(messageQueue).msg.content, "queue",
                             Shift(messageQueue).msg.id[2])
         /\ UNCHANGED errors

\* processQueue(), lines 476-494, up to the first await inside invokeAgent.
\* `flag` is this.processing as the call finds it.
processQueue(flag, others) ==
    IF flag \/ messageQueue = <<>>
    THEN /\ processing' = flag
         /\ invoking' = others
         /\ UNCHANGED <<messageQueue, state, pendingScheduledTasks, errors>>
    ELSE IF ~isConfigured
    THEN /\ messageQueue' = Shift(messageQueue).rest
         /\ errors' = Bump(errors, Shift(messageQueue).msg.groupId)
         /\ processing' = flag
         /\ invoking' = others
         /\ UNCHANGED <<state, pendingScheduledTasks>>
    ELSE /\ processing' = TRUE
         /\ messageQueue' = Shift(messageQueue).rest
         /\ InvokeAgentStart(others, Shift(messageQueue).msg.groupId,
                             Shift(messageQueue).msg.content, "queue",
                             Shift(messageQueue).msg.id[2])
         /\ UNCHANGED errors

DrainFinallyKeepFlag(others) == processQueue(TRUE, others)

\* the finally block of processQueue, lines 497-503
DrainFinally(others) == processQueue(FALSE, others)

\* ------------------------------------------------------------------- enqueue
\* enqueue(msg) up to `await saveMessage(stored)`, lines 450-468.  A Telegram
\* message arrives only through a loaded adapter that has not been stopped.
EnqueueStart(groupId, content) ==
    /\ StartsWith(groupId, <<"t", "g", ":">>) => telegram # NULL /\ ~down.adapters
    /\ LET msg == [id |-> <<"msg", nmsgs + 1>>, groupId |-> groupId,
                   sender |-> "user", content |-> content,
                   channel |-> ChannelOf(groupId)]
           isBrowserMain == groupId = DEFAULT_GROUP_ID
           hasTrigger == RegExpTest(triggerPattern, Trim(content))
           isTrigger == isBrowserMain \/ hasTrigger
           stored == [id |-> msg.id, groupId |-> groupId, sender |-> "user",
                      content |-> content, channel |-> msg.channel,
                      isFromMe |-> FALSE, isTrigger |-> isTrigger]
       IN  /\ messageQueue' = Push(messageQueue, msg, isTrigger)
           /\ appended' = IF messageQueue' # messageQueue
                          THEN appended \cup {nmsgs + 1} ELSE appended
           /\ saving' = AwaitSave(saving, stored)
    /\ nmsgs' = nmsgs + 1
    /\ UNCHANGED <<auxVars, thrown, busVars, storeVars, state, processing, pendingScheduledTasks, cfgVars, db, invoking,
                   worker, delivering,  nsched, ncompact, nsets, posted, saves,
                   sent, finished, chimes, errors>>

\* enqueue(msg) from the completion of saveMessage, lines 468-472
EnqueueSaved(stored) ==
    /\ stored \in saving
    /\ saving' = saving \ {stored}
    /\ db' = saveMessage(db, stored)
    /\ saves' = Bump(saves, stored.id)
    /\ processQueue(processing, invoking)
    /\ UNCHANGED <<auxVars, thrown, busVars, storeVars, cfgVars, worker, delivering, cntVars, appended, posted, sent,
                   finished, chimes>>

SchedulerFireQueued(groupId) ==
    /\ ~down.scheduler
    /\ nsched' = nsched + 1
    /\ messageQueue' = Append(messageQueue,
            [id |-> <<"msg", nsched + 1>>, groupId |-> groupId,
             sender |-> "Scheduler", content |-> <<SCHEDULED, "b">>,
             channel |-> ChannelOf(groupId)])
    /\ UNCHANGED <<auxVars, thrown, busVars, storeVars, state, invoking, processing,
                   pendingScheduledTasks, cfgVars, db, saving, worker, delivering,
                   nmsgs, ncompact, nsets, appended, posted, saves, sent, finished,
                   chimes, errors>>

\* the scheduler's callback, init lines 219-221; the prompt carries the marker.
\* A stopped scheduler fires no task.
SchedulerFire(groupId) ==
    /\ ~down.scheduler
    /\ nsched' = nsched + 1
    /\ InvokeAgentStart(invoking, groupId, <<SCHEDULED, "b">>, "sched", nsched + 1)
    /\ UNCHANGED <<auxVars, thrown, busVars, storeVars, messageQueue, processing, cfgVars, db, saving, worker, delivering,
                   nmsgs, ncompact, nsets, appended, posted, saves, sent, finished,
                   chimes, errors>>

\* invokeAgent from the completion of the Scheduler message's save, lines 528-535
InvokeScheduledSaved(inv) ==
    /\ inv \in invoking
    /\ inv.pc = "saveScheduled"
    /\ LET stored == [id |-> <<"sched", inv.tag>>, groupId |-> inv.groupId,
                      sender |-> "Scheduler", content |-> inv.content,
                      channel |-> ChannelOf(inv.groupId),
                      isFromMe |-> FALSE, isTrigger |-> TRUE]
       IN  /\ db' = saveMessage(db, stored)
           /\ saves' = Bump(saves, stored.id)
    /\ invoking' = (invoking \ {inv}) \cup {[inv EXCEPT !.pc = "load"]}
    /\ UNCHANGED <<auxVars, thrown, busVars, storeVars, state, messageQueue, processing, pendingScheduledTasks, cfgVars,
                   saving, worker, delivering, cntVars, appended, posted, sent,
                   finished, chimes, errors>>

\* invokeAgent from the completion of buildConversationMessages to the
\* postMessage, lines 544-561; for a call made by processQueue the finally
\* block of processQueue follows at once.
InvokePost(inv) ==
    /\ inv \in invoking
    /\ inv.pc = "load"
    /\ LET env == [type |-> "invoke", tag |-> inv.tag, src |-> inv.src,
                   groupId |-> inv.groupId, msg |-> inv.msg,
                   messages |-> {m.id : m \in {x \in db : x.groupId = inv.groupId}}]
       IN  /\ worker' = worker \cup {env}
           /\ posted' = Append(posted, env)
    /\ IF inv.src = "queue"
       THEN DrainFinally(invoking \ {inv})
       ELSE /\ invoking' = invoking \ {inv}
            /\ UNCHANGED <<state, messageQueue, processing, pendingScheduledTasks,
                           errors>>
    /\ UNCHANGED <<auxVars, thrown, busVars, storeVars, cfgVars, db, saving, delivering, cntVars, appended, saves, sent,
                   finished, chimes>>

\* what follows an exception out of `await this.invokeAgent(...)` in
\* processQueue: the catch logs it, the finally block runs (lines 495-503)
CatchFinallyKeepFlag(others) == processQueue(TRUE, others)

catchFinally(others) == DrainFinally(others)

\* invokeAgent throws at one of its awaits or at postMessage (a rejected
\* saveMessage, getEnabledSkills or buildConversationMessages, an envelope
\* that cannot be cloned).  A call made by processQueue is inside its try;
\* the state set at line 507 is not reset.
InvokeThrow(inv) ==
    /\ inv \in invoking
    /\ inv.src = "queue"
    /\ thrown' = thrown \cup {inv.tag}
    /\ catchFinally(invoking \ {inv})
    /\ UNCHANGED <<auxVars, busVars, storeVars, cfgVars, db, saving, worker, delivering,
                   cntVars, appended, posted, saves, sent, finished, chimes>>

\* ------------------------------------------------------------ compactContext
\* the two early returns of compactContext, lines 380-396
CompactRejectedUnconfiguredOnly == ~isConfigured

compactRejected == ~isConfigured \/ state # "idle"

\* compactContext(groupId) up to its first await, lines 379-404
CompactContext(groupId) ==
    /\ ncompact' = ncompact + 1
    /\ IF compactRejected
       THEN /\ errors' = Bump(errors, groupId)
            /\ UNCHANGED <<state, invoking>>
       ELSE /\ state' = "thinking"
            /\ invoking' = invoking \cup
                 {[tag |-> <<"compact", ncompact + 1>>, src |-> "compact",
                   groupId |-> groupId, content |-> <<>>, msg |-> ncompact + 1,
                   pc |-> "load"]}
            /\ UNCHANGED errors
    /\ UNCHANGED <<auxVars, thrown, busVars, storeVars, messageQueue, processing, pendingScheduledTasks, cfgVars, db,
                   saving, worker, delivering, nmsgs, nsched, nsets, appended,
                   posted, saves, sent, finished, chimes>>

\* compactContext from the completion of buildConversationMessages, lines 412-427
CompactPost(inv) ==
    /\ inv \in invoking
    /\ inv.src = "compact"
    /\ inv.pc = "load"
    /\ LET env == [type |-> "compact", tag |-> inv.tag, src |-> inv.src,
                   groupId |-> inv.groupId, msg |-> inv.msg,
                   messages |-> {m.id : m \in {x \in db : x.groupId = inv.groupId}}]
       IN  /\ worker' = worker \cup {env}
           /\ posted' = Append(posted, env)
    /\ invoking' = invoking \ {inv}
    /\ UNCHANGED <<auxVars, thrown, busVars, storeVars, state, messageQueue, processing, pendingScheduledTasks, cfgVars,
                   db, saving, delivering, cntVars, appended, saves, sent,
                   finished, chimes, errors>>

\* ------------------------------------------------------- handleWorkerMessage
CompactKinds == {"compact-done", "error"}

TerminalKinds(type) == IF type = "compact" THEN CompactKinds ELSE ReplyKinds

\* the text handed to deliverResponse, lines 567-568 and 583-584
ReplyText(kind) ==
    IF kind = "error" THEN <<ERROR_PREFIX, "e">> ELSE <<"t">>

\* deliverResponse from line 662 to its end: chime, events, state, typing
DeliverFinish(d) ==
    /\ IF d.groupId \in pendingScheduledTasks
       THEN /\ pendingScheduledTasks' = pendingScheduledTasks \ {d.groupId}
            /\ chimes' = Bump(chimes, d.groupId)
       ELSE UNCHANGED <<pendingScheduledTasks, chimes>>
    /\ state' = "idle"
    /\ finished' = Bump(finished, [tag |-> d.tag, kind |-> d.kind,
                                   groupId |-> d.groupId])

HandleWorkerMessageClearing(env, kind) ==
    /\ ~down.worker
    /\ env \in worker
    /\ kind \in TerminalKinds(env.type) \ {"compact-done"}
    /\ worker' = worker \ {env}
    /\ LET stored == [id |-> <<"reply", env.tag>>, groupId |-> env.groupId,
                      sender |-> assistantName, content |-> ReplyText(kind),
                      channel |-> ChannelOf(env.groupId),
                      isFromMe |-> TRUE, isTrigger |-> FALSE]
           d == [tag |-> env.tag, type |-> env.type, src |-> env.src,
                 msg |-> env.msg, kind |-> kind, groupId |-> env.groupId,
                 sender |-> assistantName,
                 adapter |-> findChannel(env.groupId), pc |-> "send"]
       IN  /\ db' = saveMessage(IF env.type = "compact"
                                THEN clearGroupMessages(db, env.groupId)
                                ELSE db, stored)
           /\ saves' = Bump(saves, stored.id)
           /\ IF findChannel(env.groupId) = NULL
              THEN /\ DeliverFinish(d)
                   /\ UNCHANGED delivering
              ELSE /\ delivering' = delivering \cup {d}
                   /\ UNCHANGED <<state, pendingScheduledTasks, finished, chimes>>
    /\ UNCHANGED <<auxVars, thrown, busVars, storeVars, messageQueue, processing, cfgVars, saving, invoking, cntVars,
                   appended, posted, sent, errors>>

\* handleWorkerMessage(msg) for a 'response' or an 'error' envelope answering
\* `env`, and deliverResponse up to the await of channel.send inside
\* Router.send (lines 566-570, 582-586, 642-660).  Before `await saveMessage`
\* the handler only builds the record, so the envelope's arrival and the
\* completion of the save are one step.  With no channel resolved Router.send
\* returns at once and deliverResponse runs to its end.  A terminated worker
\* delivers no envelope.
HandleWorkerMessage(env, kind) ==
    /\ ~down.worker
    /\ env \in worker
    /\ kind \in TerminalKinds(env.type) \ {"compact-done"}
    /\ worker' = worker \ {env}
    /\ LET stored == [id |-> <<"reply", env.tag>>, groupId |-> env.groupId,
                      sender |-> assistantName, content |-> ReplyText(kind),
                      channel |-> ChannelOf(env.groupId),
                      isFromMe |-> TRUE, isTrigger |-> FALSE]
           d == [tag |-> env.tag, type |-> env.type, src |-> env.src,
                 msg |-> env.msg, kind |-> kind, groupId |-> env.groupId,
                 sender |-> assistantName,
                 adapter |-> findChannel(env.groupId), pc |-> "send"]
       IN  /\ db' = saveMessage(db, stored)
           /\ saves' = Bump(saves, stored.id)
           /\ IF findChannel(env.groupId) = NULL
              THEN /\ DeliverFinish(d)
                   /\ UNCHANGED delivering
              ELSE /\ delivering' = delivering \cup {d}
                   /\ UNCHANGED <<state, pendingScheduledTasks, finished, chimes>>
    /\ UNCHANGED <<auxVars, thrown, busVars, storeVars, messageQueue, processing, cfgVars, saving, invoking, cntVars,
                   appended, posted, sent, errors>>

\* deliverResponse from the completion of channel.send to its end, lines 660-673
DeliverSent(d) ==
    /\ d \in delivering
    /\ d.pc = "send"
    /\ sent' = sent \cup {[adapter |-> d.adapter, groupId |-> d.groupId,
                           tag |-> d.tag, text |-> ReplyText(d.kind)]}
    /\ DeliverFinish(d)
    /\ delivering' = delivering \ {d}
    /\ UNCHANGED <<auxVars, thrown, busVars, storeVars, messageQueue, processing, cfgVars, db, saving, invoking, worker,
                   cntVars, appended, posted, saves, errors>>

\* handleWorkerMessage(msg) for a 'compact-done' envelope answering `env`, and
\* handleCompactDone from the completion of clearGroupMessages to the await of
\* saveMessage, lines 605-608 and 617-635
HandleCompactDone(env) ==
    /\ ~down.worker
    /\ env \in worker
    /\ "compact-done" \in TerminalKinds(env.type)
    /\ worker' = worker \ {env}
    /\ db' = clearGroupMessages(db, env.groupId)
    /\ delivering' = delivering \cup
         {[tag |-> env.tag, type |-> env.type, src |-> env.src, msg |-> env.msg,
           kind |-> "compact-done", groupId |-> env.groupId,
           sender |-> assistantName, adapter |-> NULL, pc |-> "saveSummary"]}
    /\ UNCHANGED <<auxVars, thrown, busVars, storeVars, state, messageQueue, processing, pendingScheduledTasks, cfgVars,
                   saving, invoking, cntVars, appended, posted, saves,
                   sent, finished, chimes, errors>>

\* handleCompactDone from the completion of saveMessage to its end, lines 635-639
CompactSaved(d) ==
    /\ d \in delivering
    /\ d.pc = "saveSummary"
    /\ LET stored == [id |-> <<"summary", d.tag>>, groupId |-> d.groupId,
                      sender |-> d.sender, content |-> <<"s">>,
                      channel |-> ChannelOf(d.groupId),
                      isFromMe |-> TRUE, isTrigger |-> FALSE]
       IN  /\ db' = saveMessage(db, stored)
           /\ saves' = Bump(saves, stored.id)
    /\ state' = "idle"
    /\ finished' = Bump(finished, [tag |-> d.tag, kind |-> d.kind,
                                   groupId |-> d.groupId])
    /\ delivering' = delivering \ {d}
    /\ UNCHANGED <<auxVars, thrown, busVars, storeVars, messageQueue, processing, pendingScheduledTasks, cfgVars, saving,
                   invoking, worker, cntVars, appended, posted, sent, chimes,
                   errors>>

\* ------------------------------------------------------------------ setters
\* setApiKey(key), lines 270-272: the cached key changes before any await
SetApiKey(key) ==
    /\ nsets' = nsets + 1
    /\ apiKey' = key
    /\ setting' = AwaitSetConfig(setting, nsets + 1, "apiKey", encryptValue(key))
    /\ UNCHANGED config
    /\ UNCHANGED <<auxVars, thrown, busVars, state, messageQueue, processing, pendingScheduledTasks, provider,
                   ollamaUrl, assistantName, triggerPattern, telegram, db, saving,
                   invoking, worker, delivering, nmsgs, nsched, ncompact, 
                   appended, posted, saves, sent, finished, chimes, errors>>

\* setProvider(val), lines 243-245
SetProvider(val) ==
    /\ nsets' = nsets + 1
    /\ provider' = val
    /\ setting' = AwaitSetConfig(setting, nsets + 1, "provider", val)
    /\ UNCHANGED config
    /\ UNCHANGED <<auxVars, thrown, busVars, state, messageQueue, processing, pendingScheduledTasks, apiKey,
                   ollamaUrl, assistantName, triggerPattern, telegram, db, saving,
                   invoking, worker, delivering, nmsgs, nsched, ncompact, 
                   appended, posted, saves, sent, finished, chimes, errors>>

\* setOllamaUrl(val), lines 252-254
SetOllamaUrl(val) ==
    /\ nsets' = nsets + 1
    /\ ollamaUrl' = val
    /\ setting' = AwaitSetConfig(setting, nsets + 1, "ollamaUrl", val)
    /\ UNCHANGED config
    /\ UNCHANGED <<auxVars, thrown, busVars, state, messageQueue, processing, pendingScheduledTasks, provider,
                   apiKey, assistantName, triggerPattern, telegram, db, saving,
                   invoking, worker, delivering, nmsgs, nsched, ncompact, 
                   appended, posted, saves, sent, finished, chimes, errors>>

\* setAssistantName(name), lines 301-304
SetAssistantName(name) ==
    /\ nsets' = nsets + 1
    /\ assistantName' = name
    /\ triggerPattern' = buildTriggerPattern(name)
    /\ setting' = AwaitSetConfig(setting, nsets + 1, "assistantName", name)
    /\ UNCHANGED config
    /\ UNCHANGED <<auxVars, thrown, busVars, state, messageQueue, processing, pendingScheduledTasks, provider,
                   apiKey, ollamaUrl, telegram, db, saving, invoking, worker,
                   delivering, nmsgs, nsched, ncompact,  appended, posted,
                   saves, sent, finished, chimes, errors>>

\* a setter from the completion of `await setConfig(...)` to its return
SetConfigDone(s) ==
    /\ s \in setting
    /\ config' = setConfig(config, s.key, s.value)
    /\ setting' = setting \ {s}
    /\ UNCHANGED <<auxVars, thrown, busVars, state, messageQueue, processing,
                   pendingScheduledTasks, cfgVars, db, saving, invoking, worker,
                   delivering, cntVars, appended, posted, saves, sent, finished,
                   chimes, errors>>

\* a setter whose awaited encryptValue or setConfig rejects: the setter has no
\* catch, so the rejection passes to its caller and nothing else runs
SetConfigFailed(s) ==
    /\ s \in setting
    /\ setting' = setting \ {s}
    /\ UNCHANGED <<auxVars, thrown, busVars, config, state, messageQueue, processing,
                   pendingScheduledTasks, cfgVars, db, saving, invoking, worker,
                   delivering, cntVars, appended, posted, saves, sent, finished,
                   chimes, errors>>

\* ----------------------------------------------------------------- EventBus
\* callbacks an observer may register for one event kind; the last two throw
Callbacks == {"h1", "h2", "t1", "t2"}

Throws(cb) == cb \in {"t1", "t2"}

Range(s) == {s[i] : i \in DOMAIN s}

Remove(s, cb) == SelectSeq(s, LAMBDA x : x # cb)

\* listeners.get(event).forEach((cb) => cb(data)): the callbacks run in
\* insertion order; the first exception ends the iteration and leaves emit
RECURSIVE ForEach(_)
ForEach(s) ==
    IF s = <<>> THEN [called |-> <<>>, raised |-> FALSE]
    ELSE IF Throws(Head(s)) THEN [called |-> <<Head(s)>>, raised |-> TRUE]
    ELSE LET rest == ForEach(Tail(s))
         IN  [called |-> <<Head(s)>> \o rest.called, raised |-> rest.raised]

\* EventBus.on(event, callback), lines 78-83: a Set keeps one entry per callback
On(cb) ==
    /\ listeners' = IF cb \in Range(listeners) THEN listeners
                    ELSE Append(listeners, cb)
    /\ UNCHANGED <<auxVars, called, raised, thrown, storeVars, state, messageQueue,
                   processing, pendingScheduledTasks, cfgVars, db, saving,
                   invoking, worker, delivering, cntVars, appended, posted,
                   saves, sent, finished, chimes, errors>>

\* EventBus.off(event, callback), lines 85-87
Off(cb) ==
    /\ listeners' = Remove(listeners, cb)
    /\ UNCHANGED <<auxVars, called, raised, thrown, storeVars, state, messageQueue,
                   processing, pendingScheduledTasks, cfgVars, db, saving,
                   invoking, worker, delivering, cntVars, appended, posted,
                   saves, sent, finished, chimes, errors>>

\* EventBus.emit(event, data), lines 89-91
Emit ==
    /\ called' = ForEach(listeners).called
    /\ raised' = ForEach(listeners).raised
    /\ UNCHANGED <<auxVars, listeners, thrown, storeVars, state, messageQueue,
                   processing, pendingScheduledTasks, cfgVars, db, saving,
                   invoking, worker, delivering, cntVars, appended, posted,
                   saves, sent, finished, chimes, errors>>

\* ----------------------------------------------------------- specifications
\* The handlers, grouped.  The bounds stop the environment (arrivals, timer
\* ticks, calls from the user interface), never a handler that has started.
Ingest(limit, inputs) ==
    \/ /\ nmsgs < limit
       /\ \E m \in inputs : EnqueueStart(m[1], m[2])
    \/ \E stored \in saving : EnqueueSaved(stored)

Drain == \E inv \in {i \in invoking : i.src # "compact"} : InvokePost(inv)

Deliver ==
    \/ \E env \in worker, kind \in ReplyKinds :
          HandleWorkerMessage(env, kind)
    \/ \E d \in delivering : DeliverSent(d)

Compaction ==
    \/ /\ ncompact < MaxCompact
       /\ CompactContext(DEFAULT_GROUP_ID)
    \/ \E inv \in invoking : CompactPost(inv)
    \/ \E env \in worker : HandleCompactDone(env)
    \/ \E d \in delivering : CompactSaved(d)

Scheduling ==
    \/ /\ nsched < MaxSched
       /\ \E g \in Groups : SchedulerFire(g)
    \/ \E inv \in invoking : InvokeScheduledSaved(inv)

Credentials ==
    /\ nsets < MaxSets
    /\ \E key \in Keys : SetApiKey(key)

\* the live chat path: ingestion, draining, delivery, and the key being
\* set or cleared while messages are in flight
Next == Ingest(MaxMsgs, Inbound) \/ Drain \/ Deliver \/ Credentials

Spec == Init /\ [][Next]_vars

\* the live chat path together with context compaction
NextCompact ==
    \/ Ingest(MaxCompactMsgs, PlainInbound)
    \/ Drain \/ Deliver \/ Compaction

SpecCompact == Boot(ASSISTANT_NAME, "telegram") /\ [][NextCompact]_vars

\* the live chat path under a burst of messages
NextBurst == Ingest(MaxBurst, Inbound) \/ Drain \/ Deliver \/ Credentials

SpecBurst == Init /\ [][NextBurst]_vars

\* one message of any text under any assistant name: the trigger decision
Texts(chars, n) == UNION {[1..k -> chars] : k \in 0..n}

ContentTexts == Texts({"@", "a", "A", "b", " ", "."}, MaxLen)

NameTexts == Texts({"a", "A", "."}, MaxNameLen)

\* The flag of a message depends on no earlier message (the pattern has no
\* 'g' flag, so test() keeps no position), hence one message per behaviour.
NextTrigger ==
    \/ /\ nmsgs = 0
       /\ \E g \in Groups, c \in ContentTexts : EnqueueStart(g, c)
    \/ \E stored \in saving : EnqueueSaved(stored)
    \/ /\ nsets < MaxSets
       /\ \E name \in Names : SetAssistantName(name)

SpecTrigger ==
    (\E name \in NameTexts : Boot(name, "telegram")) /\ [][NextTrigger]_vars

\* The live chat path with the provider configured throughout, storage and
\* channel calls that complete, and a worker that answers every envelope.
NextLive ==
    \/ Ingest(MaxMsgs, PlainInbound)
    \/ Drain \/ Deliver

SpecLive ==
    /\ Boot(ASSISTANT_NAME, "telegram")
    /\ [][NextLive]_vars
    /\ WF_vars(\E stored \in saving : EnqueueSaved(stored))
    /\ WF_vars(Drain)
    /\ WF_vars(Deliver)

\* the live chat path with compaction, started with or without a stored key
SpecReject ==
    (\E key \in Keys : BootWith(ASSISTANT_NAME, "telegram", key))
    /\ [][NextCompact]_vars

\* the live chat path with invocations that may fail before their post
Fault ==
    /\ Cardinality(thrown) < MaxThrows
    /\ \E inv \in invoking : InvokeThrow(inv)

NextFault == NextLive \/ Fault

SpecFault ==
    /\ Boot(ASSISTANT_NAME, "telegram")
    /\ [][NextFault]_vars
    /\ WF_vars(\E stored \in saving : EnqueueSaved(stored))
    /\ WF_vars(Drain)
    /\ WF_vars(Deliver)

\* the live chat path together with the task scheduler
NextSched ==
    \/ Ingest(MaxSchedMsgs, {<<DEFAULT_GROUP_ID, <<"b">>>>})
    \/ Drain \/ Deliver \/ Scheduling

SpecSched == Boot(ASSISTANT_NAME, "telegram") /\ [][NextSched]_vars

\* the event bus used by observers: subscribe, unsubscribe, publish
NextBus ==
    \/ \E cb \in Callbacks : On(cb)
    \/ \E cb \in Callbacks : Off(cb)
    \/ Emit

SpecBus == Boot(ASSISTANT_NAME, NULL) /\ [][NextBus]_vars

\* Callbacks that use the bus themselves while they run: "on_h2" subscribes
\* h2 to the event kind being published, "off_h2" unsubscribes it.
ReentrantCallbacks == {"h1", "h2", "on_h2", "off_h2"}

\* the slot of a deleted entry of the Set being iterated
EMPTY == "empty"

\* the listener Set after cb(data) has run: on (lines 78-83) adds at the end
\* unless present, off (lines 85-87) empties the entry's slot
RunCallback(cb, entries) ==
    IF cb = "on_h2"
    THEN IF "h2" \in Range(entries) THEN entries ELSE Append(entries, "h2")
    ELSE IF cb = "off_h2"
    THEN [k \in DOMAIN entries |-> IF entries[k] = "h2" THEN EMPTY ELSE entries[k]]
    ELSE entries

\* listeners.get(event).forEach((cb) => cb(data)), line 90, on the Set itself:
\* Set.prototype.forEach walks the entry list by position, re-reading its
\* length at every step, so an entry appended by a callback is visited and
\* an entry deleted before its turn is not
RECURSIVE LiveForEach(_, _, _)
LiveForEach(entries, i, acc) ==
    IF i > Len(entries)
    THEN [called |-> acc, listeners |-> Remove(entries, EMPTY)]
    ELSE IF entries[i] = EMPTY THEN LiveForEach(entries, i + 1, acc)
    ELSE LiveForEach(RunCallback(entries[i], entries), i + 1,
                     Append(acc, entries[i]))

\* EventBus.emit(event, data), lines 89-91, with callbacks that may call on
\* and off; the probe keeps the Set as it was when emit was called
EmitReentrant ==
    /\ LET res == LiveForEach(listeners, 1, <<>>)
       IN  /\ called' = res.called
           /\ listeners' = res.listeners
           /\ probe' = [op |-> "emit", registered |-> listeners,
                        called |-> res.called]
    /\ UNCHANGED <<tgs, unhandled, resets, telemetry, down, mx, raised, thrown,
                   storeVars, state, messageQueue, processing,
                   pendingScheduledTasks, cfgVars, db, saving, invoking, worker,
                   delivering, cntVars, appended, posted, saves, sent, finished,
                   chimes, errors>>

\* the event bus with observers that subscribe and unsubscribe from inside
\* their callbacks
NextReentrant ==
    \/ \E cb \in ReentrantCallbacks : On(cb)
    \/ \E cb \in ReentrantCallbacks : Off(cb)
    \/ EmitReentrant

SpecReentrant == Boot(ASSISTANT_NAME, NULL) /\ [][NextReentrant]_vars

\* the configuration setters and the completion or failure of their writes
Settings ==
    \/ /\ nsets < MaxSetterCalls
       /\ \/ \E key \in Keys : SetApiKey(key)
          \/ \E val \in Providers : SetProvider(val)
          \/ \E val \in Urls : SetOllamaUrl(val)
          \/ \E name \in Names : SetAssistantName(name)
    \/ \E s \in setting : SetConfigDone(s)
    \/ \E s \in setting : SetConfigFailed(s)

SpecSettings == Boot(ASSISTANT_NAME, NULL) /\ [][Settings]_vars


\* ------------------------------------------------ failing collaborator calls
\* enqueue(msg) when `await saveMessage(stored)` rejects, line 468: enqueue has
\* no try, so its promise rejects; lines 469-472 (the 'message' event and the
\* call of processQueue) do not run.  The callers (lines 164, 174) attach no
\* handler to the promise.
EnqueueSaveFailed(stored) ==
    /\ stored \in saving
    /\ saving' = saving \ {stored}
    /\ unhandled' = unhandled \cup {[call |-> "enqueue", id |-> stored.id]}
    /\ UNCHANGED <<tgs, resets, telemetry, down, mx, probe, thrown, busVars, storeVars,
                   state, messageQueue, processing, pendingScheduledTasks,
                   cfgVars, db, invoking, worker, delivering, cntVars, appended,
                   posted, saves, sent, finished, chimes, errors>>

\* handleWorkerMessage(msg) for a 'response' or an 'error' envelope when
\* `await saveMessage(stored)` in deliverResponse rejects, line 657: neither
\* deliverResponse nor handleWorkerMessage has a try around it, and onmessage
\* (lines 211-213) drops the promise; lines 660-673 do not run.
DeliverSaveFailed(env, kind) ==
    /\ ~down.worker
    /\ env \in worker
    /\ kind \in TerminalKinds(env.type) \ {"compact-done"}
    /\ worker' = worker \ {env}
    /\ unhandled' = unhandled \cup {[call |-> "handleWorkerMessage", id |-> env.tag]}
    /\ UNCHANGED <<tgs, resets, telemetry, down, mx, probe, thrown, busVars, storeVars,
                   state, messageQueue, processing, pendingScheduledTasks,
                   cfgVars, db, saving, invoking, delivering, cntVars, appended,
                   posted, saves, sent, finished, chimes, errors>>

\* deliverResponse when `await this.router.send(groupId, text)` rejects, line
\* 660 (Router.send awaits channel.send without a try, part_001 lines 32-39):
\* the reply is stored already; lines 662-673 do not run.
DeliverSendFailed(d) ==
    /\ d \in delivering
    /\ d.pc = "send"
    /\ delivering' = delivering \ {d}
    /\ unhandled' = unhandled \cup {[call |-> "handleWorkerMessage", id |-> d.tag]}
    /\ UNCHANGED <<tgs, resets, telemetry, down, mx, probe, thrown, busVars, storeVars,
                   state, messageQueue, processing, pendingScheduledTasks,
                   cfgVars, db, saving, invoking, worker, cntVars, appended,
                   posted, saves, sent, finished, chimes, errors>>

\* the live chat path with storage and channel calls that may reject
Failures ==
    /\ Cardinality(unhandled) < MaxFailures
    /\ \/ \E stored \in saving : EnqueueSaveFailed(stored)
       \/ \E env \in worker, kind \in ReplyKinds :
             DeliverSaveFailed(env, kind)
       \/ \E d \in delivering : DeliverSendFailed(d)

NextFailures == NextLive \/ Failures

SpecFailures == Boot(ASSISTANT_NAME, "telegram") /\ [][NextFailures]_vars


\* -------------------------------------------------------------------- Router
\* a method call `channel.m(...)`: on null it throws a TypeError
MethodCall(channel) ==
    IF channel = NULL THEN [calls |-> <<>>, threw |-> TRUE]
    ELSE [calls |-> <<channel>>, threw |-> FALSE]

\* an optional call `channel?.m(...)`: on null it is skipped
OptionalCall(channel) ==
    IF channel = NULL THEN [calls |-> <<>>, threw |-> FALSE]
    ELSE MethodCall(channel)

Router_findChannelMatrixToBrowser(groupId, getTelegram, getBluesky, getMatrix) ==
    IF StartsWith(groupId, <<"t", "g", ":">>) THEN getTelegram
    ELSE IF StartsWith(groupId, <<"b", "s", "k", "y", ":">>) THEN getBluesky
    ELSE "browser"

\* Router.findChannel(groupId) for a router built over the three getters,
\* each given by the value it returns (an adapter or null)
Router_findChannel(groupId, getTelegram, getBluesky, getMatrix) ==
    IF StartsWith(groupId, <<"t", "g", ":">>) THEN getTelegram
    ELSE IF StartsWith(groupId, <<"b", "s", "k", "y", ":">>) THEN getBluesky
    ELSE IF StartsWith(groupId, <<"m", "x", ":">>) THEN getMatrix
    ELSE "browser"

\* Router.send(groupId, text)
RouterSend(groupId, getTelegram, getBluesky, getMatrix) ==
    /\ LET channel == Router_findChannel(groupId, getTelegram, getBluesky, getMatrix)
           out == IF channel = NULL
                  THEN [calls |-> <<>>, threw |-> FALSE]
                  ELSE MethodCall(channel)
       IN  probe' = [op |-> "send", groupId |-> groupId, telegram |-> getTelegram,
                     bluesky |-> getBluesky, matrix |-> getMatrix,
                     channel |-> channel, calls |-> out.calls, threw |-> out.threw]
    /\ UNCHANGED <<tgs, unhandled, resets, telemetry, down, mx, thrown, busVars,
                   storeVars, state, messageQueue, processing,
                   pendingScheduledTasks, cfgVars, db, saving, invoking, worker,
                   delivering, cntVars, appended, posted, saves, sent, finished,
                   chimes, errors>>

\* Router.setTyping(groupId, typing)
RouterSetTyping(groupId, getTelegram, getBluesky, getMatrix) ==
    /\ LET channel == Router_findChannel(groupId, getTelegram, getBluesky, getMatrix)
           out == OptionalCall(channel)
       IN  probe' = [op |-> "setTyping", groupId |-> groupId,
                     telegram |-> getTelegram, bluesky |-> getBluesky,
                     matrix |-> getMatrix, channel |-> channel,
                     calls |-> out.calls, threw |-> out.threw]
    /\ UNCHANGED <<tgs, unhandled, resets, telemetry, down, mx, thrown, busVars,
                   storeVars, state, messageQueue, processing,
                   pendingScheduledTasks, cfgVars, db, saving, invoking, worker,
                   delivering, cntVars, appended, posted, saves, sent, finished,
                   chimes, errors>>

\* group ids: the four kinds the router knows, near misses of their prefixes,
\* and every short text over the characters of two prefixes
NamedRouteIds ==
    {<<"t", "g", ":", "1">>, <<"b", "s", "k", "y", ":", "1">>,
     <<"m", "x", ":", "1">>, DEFAULT_GROUP_ID, <<"T", "G", ":", "1">>,
     <<"x", "t", "g", ":">>, <<"b", "s", "k", "y">>, <<"b", "s", "k", "y", ":">>}

PrefixChars == {"t", "g", ":", "m", "x"}

RouteIds(n) == NamedRouteIds \cup Texts(PrefixChars, n)

\* one call on a router over any combination of loaded and absent optional
\* adapters (the router keeps no state between calls)
NextRouter ==
    /\ probe.op = "none"
    /\ \E groupId \in RouteIds(MaxRouteLen), getTelegram \in Getters("telegram"),
          getBluesky \in Getters("bluesky"), getMatrix \in Getters("matrix") :
          \/ RouterSend(groupId, getTelegram, getBluesky, getMatrix)
          \/ RouterSetTyping(groupId, getTelegram, getBluesky, getMatrix)

SpecRouter == Boot(ASSISTANT_NAME, NULL) /\ [][NextRouter]_vars


\* ------------------------------------------------------ Router.formatOutbound
INTERNAL_OPEN == <<"<", "i", "n", "t", "e", "r", "n", "a", "l", ">">>

INTERNAL_CLOSE == <<"<", "/", "i", "n", "t", "e", "r", "n", "a", "l", ">">>

\* the first index i >= from at which p occurs in s, or 0
IndexOf(s, p, from) ==
    LET hits == {i \in from..(Len(s) - Len(p) + 1) : SubSeq(s, i, i + Len(p) - 1) = p}
    IN  IF hits = {} THEN 0 ELSE CHOOSE i \in hits : \A j \in hits : i <= j

\* rawText.replace(/<internal>[\s\S]*?<\/internal>/g, '') from index `from`:
\* the leftmost opening tag, lazily up to the first closing tag that follows
\* it, is dropped and the scan resumes after the match; text that remains is
\* never scanned again.
RECURSIVE ReplaceInternal(_, _)
ReplaceInternal(s, from) ==
    LET a == IndexOf(s, INTERNAL_OPEN, from)
        b == IF a = 0 THEN 0 ELSE IndexOf(s, INTERNAL_CLOSE, a + Len(INTERNAL_OPEN))
    IN  IF b = 0 THEN SubSeq(s, from, Len(s))
        ELSE SubSeq(s, from, a - 1) \o ReplaceInternal(s, b + Len(INTERNAL_CLOSE))

\* Router.formatOutbound(rawText)
formatOutbound(rawText) == Trim(ReplaceInternal(rawText, 1))

RECURSIVE Concat(_)
Concat(pieces) ==
    IF pieces = <<>> THEN <<>> ELSE Head(pieces) \o Concat(Tail(pieces))

\* the pieces raw texts are put together from: the two halves of an opening
\* tag, the first half of a closing tag (its second half is that of the
\* opening tag), and a space
Pieces == {<<"<", "i", "n", "t", "e", "r">>, <<"n", "a", "l", ">">>, <<"<", "/", "i", "n", "t", "e", "r">>, <<" ">>}

RawTexts(n) == {Concat(p) : p \in Texts(Pieces, n)}

FormatOutboundCall(rawText) ==
    /\ probe' = [op |-> "formatOutbound", rawText |-> rawText,
                 out |-> formatOutbound(rawText)]
    /\ UNCHANGED <<tgs, unhandled, resets, telemetry, down, mx, thrown, busVars,
                   storeVars, state, messageQueue, processing,
                   pendingScheduledTasks, cfgVars, db, saving, invoking, worker,
                   delivering, cntVars, appended, posted, saves, sent, finished,
                   chimes, errors>>

\* one call of formatOutbound on any raw text (the function is static and pure)
NextOutbound ==
    /\ probe.op = "none"
    /\ \E rawText \in RawTexts(MaxPieces) : FormatOutboundCall(rawText)

SpecOutbound == Boot(ASSISTANT_NAME, NULL) /\ [][NextOutbound]_vars


\* -------------------------------------------------- Router.formatMessagesXml
\* s.replace(/c/g, entity) for a single character c
RECURSIVE ReplaceAll(_, _, _)
ReplaceAll(s, c, entity) ==
    IF s = <<>> THEN <<>>
    ELSE (IF Head(s) = c THEN entity ELSE <<Head(s)>>) \o ReplaceAll(Tail(s), c, entity)

AMP == <<"&", "a", "m", "p", ";">>

LT == <<"&", "l", "t", ";">>

GT == <<"&", "g", "t", ";">>

QUOT == <<"&", "q", "u", "o", "t", ";">>

EscapeXmlAmpLast(s) ==
    ReplaceAll(ReplaceAll(ReplaceAll(ReplaceAll(s, "<", LT), ">", GT), "\"", QUOT),
               "&", AMP)

\* escapeXml, lines 62-67: four replacements, the ampersand first
escapeXml(s) ==
    ReplaceAll(ReplaceAll(ReplaceAll(ReplaceAll(s, "&", AMP), "<", LT), ">", GT),
               "\"", QUOT)

\* new Date(timestamp).toISOString() for a timestamp of 0..9 milliseconds
Digits == <<"0", "1", "2", "3", "4", "5", "6", "7", "8", "9">>

toISOString(timestamp) ==
    <<"1", "9", "7", "0", "-", "0", "1", "-", "0", "1", "T", "0", "0", ":", "0", "0", ":", "0", "0", ".", "0", "0">> \o <<Digits[timestamp + 1], "Z">>

\* one line of the document, line 71
MessageLine(m) ==
    <<"<", "m", "e", "s", "s", "a", "g", "e", " ", "s", "e", "n", "d", "e", "r", "=", "\"">> \o escapeXml(m.sender) \o <<"\"", " ", "t", "i", "m", "e", "=", "\"">>
    \o toISOString(m.timestamp) \o <<"\"", ">">> \o escapeXml(m.content)
    \o <<"<", "/", "m", "e", "s", "s", "a", "g", "e", ">">>

\* lines.join('\n')
RECURSIVE Join(_)
Join(lines) ==
    IF lines = <<>> THEN <<>>
    ELSE IF Len(lines) = 1 THEN Head(lines)
    ELSE Head(lines) \o <<"\n">> \o Join(Tail(lines))

\* Router.formatMessagesXml(messages)
formatMessagesXml(messages) ==
    <<"<", "m", "e", "s", "s", "a", "g", "e", "s", ">", "\n">> \o Join([i \in DOMAIN messages |-> MessageLine(messages[i])])
    \o <<"\n", "<", "/", "m", "e", "s", "s", "a", "g", "e", "s", ">">>

\* texts over the reserved characters, the apostrophe, and the letters and
\* the semicolon that spell an entity
XmlChars == {"&", "<", ">", "\"", "'", ";", "l", "t"}

XmlTexts(n) == Texts(XmlChars, n)

\* messages whose fields imitate the document's own markup
XmlSamples ==
    {[sender |-> <<"a", "&">>, content |-> <<"<", "b", ">">>, timestamp |-> 1],
     [sender |-> <<"\"", " ", "t", "i", "m", "e", "=", "\"">>,
      content |-> <<"<", "/", "m", "e", "s", "s", "a", "g", "e", ">", "\n", "<", "m", "e", "s", "s", "a", "g", "e", " ", "s", "e", "n", "d", "e", "r", "=", "\"", "x", "\"", ">", "y">>, timestamp |-> 2],
     [sender |-> <<"<", "m", "e", "s", "s", "a", "g", "e", " ", "s", "e", "n", "d", "e", "r", "=", "\"">>, content |-> <<"&", "l", "t", ";", "\n">>, timestamp |-> 3]}

XmlInputs(n, k) ==
    {<<[sender |-> s, content |-> <<"c">>, timestamp |-> 0]>> : s \in XmlTexts(n)}
    \cup {<<[sender |-> <<"s">>, content |-> c, timestamp |-> 0]>> : c \in XmlTexts(n)}
    \cup Texts(XmlSamples, k)

FormatMessagesXmlCall(messages) ==
    /\ probe' = [op |-> "formatMessagesXml", messages |-> messages,
                 out |-> formatMessagesXml(messages)]
    /\ UNCHANGED <<tgs, unhandled, resets, telemetry, down, mx, thrown, busVars,
                   storeVars, state, messageQueue, processing,
                   pendingScheduledTasks, cfgVars, db, saving, invoking, worker,
                   delivering, cntVars, appended, posted, saves, sent, finished,
                   chimes, errors>>

\* one call of formatMessagesXml on any list (the function is static and pure)
NextXml ==
    /\ probe.op = "none"
    /\ \E messages \in XmlInputs(MaxXmlLen, MaxXmlMsgs) : FormatMessagesXmlCall(messages)

SpecXml == Boot(ASSISTANT_NAME, NULL) /\ [][NextXml]_vars


\* ---------------------------------------------------------------- newSession
\* newSession(groupId), lines 369-373.  Before `await clearGroupMessages` the
\* method does nothing else, so the call and the completion of the clearing
\* are one step, followed by the 'session-reset' event.
NewSession(groupId) ==
    /\ db' = clearGroupMessages(db, groupId)
    /\ resets' = Bump(resets, groupId)
    /\ UNCHANGED <<tgs, unhandled, telemetry, down, mx, probe, thrown, busVars,
                   storeVars, state, messageQueue, processing,
                   pendingScheduledTasks, cfgVars, saving, invoking, worker,
                   delivering, cntVars, appended, posted, saves, sent, finished,
                   chimes, errors>>

Sessions ==
    /\ Count(resets, DEFAULT_GROUP_ID) + Count(resets, TG_GROUP) < MaxResets
    /\ \E g \in Groups : NewSession(g)

\* the scheduler has fired the task of group g
Fired(g) ==
    \/ \E inv \in invoking : inv.src = "sched" /\ inv.groupId = g
    \/ \E i \in DOMAIN posted : posted[i].src = "sched" /\ posted[i].groupId = g

\* Chat messages being handled, or scheduled tasks running (one task per
\* group, each firing once): a behaviour has chat traffic or scheduler ticks,
\* not both.
Traffic ==
    \/ /\ nsched = 0
       /\ Ingest(MaxSchedMsgs, MixedInbound)
    \/ /\ nmsgs = 0
       /\ \/ \E g \in Groups : ~Fired(g) /\ SchedulerFire(g)
          \/ \E inv \in invoking : InvokeScheduledSaved(inv)
    \/ Drain \/ Deliver

NextSession == Traffic \/ Sessions

\* chat messages in the browser's group while that group's scheduled task
\* fires, once, at any moment
NextBypass ==
    \/ Ingest(MaxSchedMsgs, {<<DEFAULT_GROUP_ID, <<"b">>>>})
    \/ Drain \/ Deliver
    \/ /\ ~Fired(DEFAULT_GROUP_ID)
       /\ SchedulerFire(DEFAULT_GROUP_ID)
    \/ \E inv \in invoking : InvokeScheduledSaved(inv)

SpecBypass == Boot(ASSISTANT_NAME, "telegram") /\ [][NextBypass]_vars

SpecSession == Boot(ASSISTANT_NAME, "telegram") /\ [][NextSession]_vars


\* ------------------------------------------------------------------ shutdown
ShutdownKeepWorker ==
    /\ down' = [down EXCEPT !.scheduler = TRUE, !.adapters = TRUE]
    /\ UNCHANGED <<tgs, unhandled, resets, telemetry, mx, probe, thrown, busVars,
                   storeVars, state, messageQueue, processing,
                   pendingScheduledTasks, cfgVars, db, saving, invoking, worker,
                   delivering, cntVars, appended, posted, saves, sent, finished,
                   chimes, errors>>

\* shutdown(), lines 433-439: the scheduler and the loaded optional adapters
\* are stopped and the worker is terminated, synchronously; no field of the
\* orchestrator is written.
Shutdown ==
    /\ down' = [scheduler |-> TRUE, adapters |-> TRUE, worker |-> TRUE]
    /\ UNCHANGED <<tgs, unhandled, resets, telemetry, mx, probe, thrown, busVars,
                   storeVars, state, messageQueue, processing,
                   pendingScheduledTasks, cfgVars, db, saving, invoking, worker,
                   delivering, cntVars, appended, posted, saves, sent, finished,
                   chimes, errors>>

\* chat traffic or scheduled tasks, and one call of shutdown at any moment
NextShutdown ==
    \/ Traffic
    \/ /\ ~down.scheduler
       /\ Shutdown

SpecShutdown == Boot(ASSISTANT_NAME, "telegram") /\ [][NextShutdown]_vars


\* ------------------------------------------------------------- MatrixChannel
\* what a MatrixChannel step leaves alone: everything but the channel
matrixFrame ==
    <<tgs, unhandled, resets, telemetry, down, probe, thrown, busVars, storeVars,
      state, messageQueue, processing, pendingScheduledTasks, cfgVars, db,
      saving, invoking, worker, delivering, cntVars, appended, posted, saves,
      sent, finished, chimes, errors>>

\* start() up to `await tmpClient.login(...)`, lines 141-152; the channel is
\* configured.  A call that finds `running` set returns at once.
MatrixStart ==
    /\ IF mx.running
       THEN mx' = [mx EXCEPT !.made = @ + 1, !.last = "start"]
       ELSE mx' = [mx EXCEPT !.made = @ + 1, !.logins = @ \cup {mx.made + 1}]
    /\ UNCHANGED matrixFrame

\* start() from a successful login to its end, lines 153-181: the
\* authenticated client is created and assigned, `running` is set, the
\* timeline listener is registered on the client and the client starts syncing
MatrixLoginOk(call) ==
    /\ call \in mx.logins
    /\ mx' = [mx EXCEPT !.logins = @ \ {call}, !.client = {call}, !.running = TRUE,
                        !.live = @ \cup {call}, !.last = "start"]
    /\ UNCHANGED matrixFrame

\* start() when the login fails, lines 158-163: logged, nothing is changed
MatrixLoginFailed(call) ==
    /\ call \in mx.logins
    /\ mx' = [mx EXCEPT !.logins = @ \ {call}, !.last = "start-failed"]
    /\ UNCHANGED matrixFrame

\* stop(), lines 187-194: the listener is removed from the current client and
\* that client is stopped and dropped
MatrixStop ==
    /\ mx' = [mx EXCEPT !.made = @ + 1, !.running = FALSE, !.client = {},
                        !.live = @ \ mx.client,
                        !.last = "stop"]
    /\ UNCHANGED matrixFrame

\* start and stop called in any order, logins completing at any moment
NextMatrix ==
    \/ /\ mx.made < MaxMatrixCalls
       /\ \/ MatrixStart
          \/ MatrixStop
    \/ \E call \in mx.logins : MatrixLoginOk(call)
    \/ \E call \in mx.logins : MatrixLoginFailed(call)

SpecMatrix == Boot(ASSISTANT_NAME, NULL) /\ [][NextMatrix]_vars


\* ------------------------------------------- non-terminal worker envelopes
ProgressKinds == {"typing", "tool-activity", "thinking-log", "token-usage",
                  "task-created"}

ProgressCount ==
    Count(telemetry, "typing") + Count(telemetry, "tool-activity")
    + Count(telemetry, "thinking-log") + Count(telemetry, "token-usage")
    + Count(telemetry, "task-created")

HandleProgressIdle(env, kind) ==
    /\ ~down.worker
    /\ env \in worker
    /\ kind \in ProgressKinds
    /\ telemetry' = Bump(telemetry, kind)
    /\ state' = IF kind = "typing" THEN "idle" ELSE state
    /\ UNCHANGED <<tgs, unhandled, resets, down, mx, probe, thrown, busVars, storeVars,
                   messageQueue, processing, pendingScheduledTasks,
                   cfgVars, db, saving, invoking, worker, delivering, cntVars,
                   appended, posted, saves, sent, finished, chimes, errors>>

\* handleWorkerMessage(msg) for an envelope the worker sends while it works on
\* `env`: 'typing' (lines 588-593: the typing indicator and a 'typing' event),
\* 'tool-activity', 'thinking-log', 'token-usage' (595-603, 610-613: the
\* payload is re-published) and 'task-created' (572-580: saveTask inside a
\* try, its failure logged).  None writes a field or the message store; the
\* envelope being answered stays outstanding.
HandleProgress(env, kind) ==
    /\ ~down.worker
    /\ env \in worker
    /\ kind \in ProgressKinds
    /\ telemetry' = Bump(telemetry, kind)
    /\ UNCHANGED <<tgs, unhandled, resets, down, mx, probe, thrown, busVars, storeVars,
                   state, messageQueue, processing, pendingScheduledTasks,
                   cfgVars, db, saving, invoking, worker, delivering, cntVars,
                   appended, posted, saves, sent, finished, chimes, errors>>

Progress ==
    /\ ProgressCount < MaxProgress
    /\ \E env \in worker, kind \in ProgressKinds : HandleProgress(env, kind)

\* Chat messages being handled, or a compaction: a behaviour has chat traffic
\* or compaction requests, not both; the worker reports progress meanwhile.
NextProgress ==
    \/ /\ ncompact = 0
       /\ Ingest(MaxCompactMsgs, MixedInbound)
    \/ /\ nmsgs = 0
       /\ Compaction
    \/ Drain \/ Deliver \/ Progress

SpecProgress == Boot(ASSISTANT_NAME, "telegram") /\ [][NextProgress]_vars


\* --------------------------------------------------- overlapping scheduled tasks
\* the task of the browser's group firing again before its earlier run has
\* been delivered, while a chat message of that group is handled
NextChime ==
    \/ Ingest(MaxSchedMsgs, {<<DEFAULT_GROUP_ID, <<"b">>>>})
    \/ Drain \/ Deliver
    \/ /\ nsched < MaxTicks
       /\ SchedulerFire(DEFAULT_GROUP_ID)
    \/ \E inv \in invoking : InvokeScheduledSaved(inv)

SpecChime == Boot(ASSISTANT_NAME, "telegram") /\ [][NextChime]_vars


\* ------------------------------------------------------- draining to the end
\* the live chat path under a burst of messages of the browser's group, with
\* the key being set or cleared meanwhile.  Saves complete, the awaits of
\* invokeAgent complete and the worker answers; no further message and no
\* further settings call is ever required to arrive.
NextStall ==
    \/ Ingest(MaxBurst, {<<DEFAULT_GROUP_ID, <<"b">>>>})
    \/ Drain \/ Deliver \/ Credentials

SpecStall ==
    /\ Boot(ASSISTANT_NAME, NULL)
    /\ [][NextStall]_vars
    /\ WF_vars(\E stored \in saving : EnqueueSaved(stored))
    /\ WF_vars(Drain)
    /\ WF_vars(Deliver)


\* ------------------------------------------------------------ channel stamps
\* one scheduled task or one compaction, for a group id of any shape, run to
\* its end: the coordinator creates the Scheduler message and the reply, or
\* the summary, of that group
NextStamp ==
    \/ /\ nsched = 0 /\ ncompact = 0
       /\ \E g \in RouteIds(MaxRouteLen) : SchedulerFire(g) \/ CompactContext(g)
    \/ \E inv \in invoking : InvokeScheduledSaved(inv) \/ CompactPost(inv)
    \/ Drain \/ Deliver
    \/ \E env \in worker : HandleCompactDone(env)
    \/ \E d \in delivering : CompactSaved(d)

SpecStamp == Init /\ [][NextStamp]_vars


\* --------------------------------------------------------- configureTelegram
\* everything outside the Telegram adapters and the _telegram field
telegramFrame ==
    <<unhandled, resets, telemetry, down, mx, probe, thrown, busVars, storeVars,
      state, messageQueue, processing, pendingScheduledTasks, provider, apiKey,
      ollamaUrl, assistantName, triggerPattern, db, saving, invoking, worker,
      delivering, cntVars, appended, posted, saves, sent, finished, chimes,
      errors>>

\* init() suspended in `await getConfig(TELEGRAM_BOT_TOKEN)`, line 167, with
\* or without a stored token, and no adapter loaded yet
InitLoading ==
    /\ BootFields(ASSISTANT_NAME, NULL, <<"k">>)
    /\ \E stored \in BOOLEAN :
          tgs = [current |-> {}, started |-> {},
                 calls |-> {[n |-> 0, kind |-> "init", pc |-> "getToken"]},
                 made |-> 0, token |-> stored]

\* init from the completion of getConfig(TELEGRAM_BOT_TOKEN), lines 167-169
InitTokenRead(c) ==
    /\ c \in tgs.calls /\ c.kind = "init" /\ c.pc = "getToken"
    /\ tgs' = [tgs EXCEPT !.calls =
                 IF tgs.token
                 THEN (@ \ {c}) \cup {[c EXCEPT !.pc = "getChatIds"]}
                 ELSE @ \ {c}]
    /\ UNCHANGED <<telegram, telegramFrame>>

\* init from the completion of getConfig(TELEGRAM_CHAT_IDS) to the await of
\* the import, lines 169-171
InitChatIdsRead(c) ==
    /\ c \in tgs.calls /\ c.kind = "init" /\ c.pc = "getChatIds"
    /\ tgs' = [tgs EXCEPT !.calls = (@ \ {c}) \cup {[c EXCEPT !.pc = "import"]}]
    /\ UNCHANGED <<telegram, telegramFrame>>

\* configureTelegram(token, chatIds) up to its first await, line 311
ConfigureTelegram ==
    /\ tgs.made < MaxTelegramCalls
    /\ tgs' = [tgs EXCEPT !.made = @ + 1,
                          !.calls = @ \cup {[n |-> tgs.made + 1,
                                             kind |-> "configure",
                                             pc |-> "setToken"]}]
    /\ UNCHANGED <<telegram, telegramFrame>>

\* configureTelegram from the completion of setConfig(TELEGRAM_BOT_TOKEN) to
\* the await of the second setConfig, lines 311-312
ConfigureTokenSaved(c) ==
    /\ c \in tgs.calls /\ c.kind = "configure" /\ c.pc = "setToken"
    /\ tgs' = [tgs EXCEPT !.token = TRUE,
                          !.calls = (@ \ {c}) \cup {[c EXCEPT !.pc = "setChatIds"]}]
    /\ UNCHANGED <<telegram, telegramFrame>>

\* configureTelegram from the completion of setConfig(TELEGRAM_CHAT_IDS) to
\* the await of the import, lines 312-314: the adapter in _telegram, if any,
\* is stopped
ConfigureChatIdsSaved(c) ==
    /\ c \in tgs.calls /\ c.kind = "configure" /\ c.pc = "setChatIds"
    /\ tgs' = [tgs EXCEPT !.started = @ \ tgs.current,
                          !.calls = (@ \ {c}) \cup {[c EXCEPT !.pc = "import"]}]
    /\ UNCHANGED <<telegram, telegramFrame>>

\* init (lines 171-176) or configureTelegram (lines 314-319) from the
\* completion of the import to its end: a new adapter is created, given the
\* enqueue callback, started and assigned to _telegram
TelegramImported(c) ==
    /\ c \in tgs.calls /\ c.pc = "import"
    /\ tgs' = [tgs EXCEPT !.started = @ \cup {c.n},
                          !.current = {c.n},
                          !.calls = @ \ {c}]
    /\ telegram' = "telegram"
    /\ UNCHANGED telegramFrame

\* init loading the Telegram adapter while the settings page configures it
NextTelegram ==
    \/ \E c \in tgs.calls : InitTokenRead(c)
    \/ \E c \in tgs.calls : InitChatIdsRead(c)
    \/ ConfigureTelegram
    \/ \E c \in tgs.calls : ConfigureTokenSaved(c)
    \/ \E c \in tgs.calls : ConfigureChatIdsSaved(c)
    \/ \E c \in tgs.calls : TelegramImported(c)

SpecTelegram == InitLoading /\ [][NextTelegram]_vars

\* ------------------------------------------------------------------ claims
\* envelopes posted to the worker whose terminal envelope has not been fully
\* handled: still at the worker, or in a handler that has not finished
Outstanding ==
    {[tag |-> e.tag, type |-> e.type, src |-> e.src] : e \in worker}
    \cup {[tag |-> d.tag, type |-> d.type, src |-> d.src] : d \in delivering}

UserMessages == {m \in saving \cup db : m.sender = "user"}

\* C1: at most one 'invoke' envelope posted by processQueue is outstanding at
\* any time: no further one is posted until the terminal envelope of the
\* earlier one has been fully handled by deliverResponse.
C1_SingleFlight ==
    Cardinality({o \in Outstanding : o.type = "invoke" /\ o.src = "queue"}) <= 1

\* C2: while some 'invoke' or 'compact' envelope is outstanding the state is
\* 'thinking'; state 'idle' implies nothing is outstanding at the worker.
C2_OutstandingImpliesThinking ==
    Outstanding # {} => state = "thinking"

\* C6: every message in the FIFO queue is already in persisted history.
C6_QueuedIsPersisted ==
    \A i \in DOMAIN messageQueue : \E m \in db : m.id = messageQueue[i].id

QueuePosts == {i \in DOMAIN posted : posted[i].src = "queue"}

\* C4: a message has been appended to the queue iff its persisted flag is
\* true, and no step of the handler that ingests a non-triggering message
\* changes the queue or starts an invocation.
C4_NonTriggerLeavesQueue ==
    [][/\ \A m \in UserMessages' : (m.id[2] \in appended') <=> m.isTrigger
       /\ \A stored \in saving \cup saving' :
            (~stored.isTrigger /\ (stored \notin saving \/ stored \notin saving'))
            => /\ messageQueue' = messageQueue
               /\ processing' = processing
               /\ invoking' = invoking]_vars

\* What does hold of a non-triggering message: it is never appended, never in
\* the queue, and no invocation is ever started or posted for it.
NonTriggerNeverDispatched ==
    /\ \A m \in UserMessages : (m.id[2] \in appended) <=> m.isTrigger
    /\ \A i \in DOMAIN messageQueue : messageQueue[i].id[2] \in appended
    /\ \A m \in UserMessages :
         ~m.isTrigger =>
            /\ \A i \in DOMAIN messageQueue : messageQueue[i].id # m.id
            /\ \A inv \in invoking : ~(inv.src = "queue" /\ inv.msg = m.id[2])
            /\ \A i \in QueuePosts : posted[i].msg # m.id[2]

\* C5: every message passed to enqueue is handed to saveMessage exactly once:
\* no save has completed while the call is suspended in `await saveMessage`,
\* and exactly one has completed afterwards, whether or not it triggers.
C5_SavedExactlyOnce ==
    \A n \in 1..nmsgs :
        Count(saves, <<"msg", n>>) =
            IF \E stored \in saving : stored.id = <<"msg", n>> THEN 0 ELSE 1

C5_Witness ==
    /\ \E m \in db : m.sender = "user" /\ ~m.isTrigger /\ Count(saves, m.id) = 1
    /\ \E f \in DOMAIN finished : f.kind = "compact-done"

\* C8: the 'invoke' envelopes of queued messages are posted in the order in
\* which the messages were pushed (message numbers are given in the order of
\* the enqueue calls, and enqueue pushes before it first suspends).
C8_Fifo ==
    \A i, j \in QueuePosts : i < j => posted[i].msg < posted[j].msg

C8_Witness ==
    /\ Cardinality(QueuePosts) >= 2
    /\ messageQueue = <<>>

\* C9: once a 'response' envelope for group g has been fully handled, exactly
\* one assistant-attributed message (isFromMe, not a trigger) has been saved
\* for it, the text has been sent once through the adapter the router
\* resolves for g (Telegram for 'tg:', the browser channel for 'br:main') and
\* through no other; while the send is pending the reply is already persisted
\* and this handler has not yet set the state to 'idle'.
C9_ResponseDelivery ==
    /\ \A f \in DOMAIN finished :
         f.kind = "response" =>
            LET expected == IF StartsWith(f.groupId, <<"t", "g", ":">>)
                            THEN telegram ELSE "browser"
            IN  /\ finished[f] = 1
                /\ Count(saves, <<"reply", f.tag>>) = 1
                /\ \E m \in db : /\ m.id = <<"reply", f.tag>>
                                 /\ m.groupId = f.groupId
                                 /\ m.sender = assistantName
                                 /\ m.content = <<"t">>
                                 /\ m.isFromMe /\ ~m.isTrigger
                /\ {x \in sent : x.tag = f.tag} =
                     IF expected = NULL THEN {}
                     ELSE {[adapter |-> expected, groupId |-> f.groupId,
                            tag |-> f.tag, text |-> <<"t">>]}
    /\ \A d \in delivering :
         d.kind = "response" =>
            /\ Count(saves, <<"reply", d.tag>>) = 1
            /\ {x \in sent : x.tag = d.tag} = {}
            /\ \A f \in DOMAIN finished : f.tag # d.tag

C9_Witness ==
    \E f \in DOMAIN finished :
        /\ f.kind = "response"
        /\ f.groupId = TG_GROUP
        /\ \E x \in sent : x.tag = f.tag /\ x.adapter = "telegram"
        /\ state = "idle"

\* a processQueue call is running or is still to come without further input:
\* a drain holds the flag (its finally block calls processQueue), or an
\* enqueue call is suspended before its processQueue call
DrainPending == processing \/ saving # {}

\* C10: once an 'error' envelope for group g has been fully handled, an
\* assistant-attributed reply carrying the error text is persisted and has
\* been routed as for a normal response, and the messages still in the queue
\* are being drained.
C10_ErrorResumesDraining ==
    \A f \in DOMAIN finished :
        f.kind = "error" =>
            /\ \E m \in db : /\ m.id = <<"reply", f.tag>>
                             /\ m.groupId = f.groupId
                             /\ m.content = <<ERROR_PREFIX, "e">>
                             /\ m.isFromMe /\ ~m.isTrigger
            /\ findChannel(f.groupId) # NULL =>
                 \E x \in sent : x.tag = f.tag /\ x.text = <<ERROR_PREFIX, "e">>
            /\ messageQueue # <<>> => DrainPending

\* '@' + name in s: preceded by the start of s or by whitespace, followed by
\* a word boundary, letters compared without regard to case
Mentions(s, name) ==
    \E i \in 1..Len(s) :
        /\ i = 1 \/ IsSpace(s[i - 1])
        /\ s[i] = "@"
        /\ i + Len(name) <= Len(s)
        /\ \A j \in 1..Len(name) : Lower(s[i + j]) = Lower(name[j])
        /\ WordBoundary(s, i + Len(name) + 1)

\* C3: the isTrigger flag enqueue hands to saveMessage, which is the flag
\* persisted, is true for every message of group 'br:main' and otherwise
\* exactly when the trimmed content mentions the assistant name configured at
\* that moment.
C3_TriggerFlag ==
    [][/\ \A stored \in saving' \ saving :
            stored.isTrigger <=>
               \/ stored.groupId = DEFAULT_GROUP_ID
               \/ Mentions(Trim(stored.content), assistantName)
       /\ \A m \in db' \ db : m.sender = "user" => m \in saving]_vars

C3_Witness ==
    /\ assistantName = <<".", "a">>
    /\ \E m \in db : /\ m.groupId = TG_GROUP
                     /\ m.isTrigger
                     /\ m.content = <<"@", ".", "A">>

InvokesFor(n) == Cardinality({i \in QueuePosts : posted[i].msg = n})

RepliedOnce(n) ==
    /\ Cardinality({f \in DOMAIN finished : f.tag = <<"queue", n>>}) = 1
    /\ \A f \in DOMAIN finished : f.tag = <<"queue", n>> => finished[f] = 1
    /\ Count(saves, <<"reply", <<"queue", n>>>>) = 1

\* C7: with the provider configured and a worker that answers every 'invoke'
\* envelope, every triggering message ingested leads to exactly one posted
\* 'invoke' envelope and exactly one delivered reply, and never to more.
C7_ExactlyOneReply ==
    \A n \in 1..MaxMsgs :
        /\ [](n \in appended => <>(InvokesFor(n) = 1 /\ RepliedOnce(n)))
        /\ [](/\ InvokesFor(n) <= 1
              /\ \A f \in DOMAIN finished : f.tag = <<"queue", n>> => finished[f] = 1
              /\ Count(saves, <<"reply", <<"queue", n>>>>) <= 1)

C7_Witness ==
    /\ Cardinality(appended) >= 2
    /\ \A n \in appended : InvokesFor(n) = 1 /\ RepliedOnce(n)

\* the provider has no usable credential or endpoint, read off the fields
Unconfigured ==
    IF provider = "ollama" THEN Trim(ollamaUrl) = <<>> ELSE apiKey = <<>>

\* C11: a compactContext call made while the provider is unconfigured or the
\* state is not 'idle' emits exactly one error event, for the group of the
\* call, posts nothing, starts nothing, and leaves the state, the queue and
\* persisted history as they were.
C11_CompactRejected ==
    [][(ncompact' # ncompact /\ (Unconfigured \/ state # "idle")) =>
          /\ errors' = Bump(errors, DEFAULT_GROUP_ID)
          /\ UNCHANGED <<state, messageQueue, db, worker, posted, invoking,
                         processing, saving, delivering>>]_vars

C11_Witness ==
    /\ ncompact >= 1
    /\ ~Unconfigured
    /\ state = "thinking"
    /\ Count(errors, DEFAULT_GROUP_ID) = 1
    /\ \A i \in DOMAIN posted : posted[i].type # "compact"
    /\ \A inv \in invoking : inv.src # "compact"


\* C12: no reachable state has a 'compact' envelope and an 'invoke' envelope
\* outstanding together.
C12_NoCompactInvokeRace ==
    ~(\E a, b \in Outstanding : a.type = "compact" /\ b.type = "invoke")

\* the persisted history of a group
History(groupId) == {m \in db : m.groupId = groupId}

\* C13: when handleCompactDone finishes for group g, the history of g is
\* exactly the one summary message it saved, and the state is 'idle'.
C13_CompactDoneAtomic ==
    [][\A d \in delivering \ delivering' :
          d.pc = "saveSummary" =>
             /\ \A m \in History(d.groupId)' : m.id = <<"summary", d.tag>>
             /\ Cardinality(History(d.groupId)') = 1
             /\ state' = "idle"]_vars


\* a processQueue call is made in this step with no drain in progress: by
\* enqueue after its save while the flag is clear, or by the finally block
\* right after an 'invoke' envelope was posted
ProcessQueueRuns ==
    \/ saving \ saving' # {} /\ ~processing
    \/ /\ Len(posted') > Len(posted)
       /\ posted'[Len(posted')].src = "queue"

QueuedNumbers(q) == {q[i].id[2] : i \in DOMAIN q}

\* an invocation has been started for message n of the queue
Started(n) ==
    \/ \E inv \in invoking : inv.src = "queue" /\ inv.msg = n
    \/ \E i \in QueuePosts : posted[i].msg = n
    \/ <<"queue", n>> \in thrown

\* C14: a processQueue call that finds the queue non-empty, no drain in
\* progress and the provider unconfigured removes exactly the head, emits one
\* error event for the head's group, starts and posts nothing for it and
\* leaves the state alone; a message that has left the queue is never queued
\* again and, unless its invocation had started, never gets one.
C14_UnconfiguredDiscard ==
    [][/\ (ProcessQueueRuns /\ messageQueue # <<>> /\ Unconfigured) =>
            /\ messageQueue' = Tail(messageQueue)
            /\ errors' = Bump(errors, Head(messageQueue).groupId)
            /\ state' = state
            /\ invoking' \subseteq invoking
            /\ \A n \in {Head(messageQueue).id[2]} : ~Started(n)'
       /\ \A n \in appended \ QueuedNumbers(messageQueue) :
            /\ n \notin QueuedNumbers(messageQueue')
            /\ Started(n)' => Started(n)]_vars

C14_Witness ==
    /\ Count(errors, TG_GROUP) = 1
    /\ messageQueue = <<>>
    /\ \E n \in appended : ~Started(n)
    /\ \E n \in appended : Started(n)


\* C15: with the provider configured, when invokeAgent throws for a dequeued
\* message the processing flag is cleared (and taken again at once only by
\* the dispatch of the next queued message), the failed message is never
\* queued or invoked again, and every message in the queue is eventually
\* dequeued and its invocation started.
C15_ThrowKeepsDraining ==
    /\ [][\A t \in thrown' \ thrown :
             /\ processing' = (messageQueue # <<>>)
             /\ messageQueue # <<>> =>
                  /\ messageQueue' = Tail(messageQueue)
                  /\ \E inv \in invoking' \ invoking :
                        inv.tag = <<"queue", Head(messageQueue).id[2]>>]_vars
    /\ [](\A t \in thrown :
             /\ t[2] \notin QueuedNumbers(messageQueue)
             /\ \A inv \in invoking : inv.tag # t
             /\ \A i \in DOMAIN posted : posted[i].tag # t)
    /\ \A n \in 1..MaxMsgs :
          [](n \in QueuedNumbers(messageQueue) =>
                <>(Started(n) /\ n \notin QueuedNumbers(messageQueue)))

C15_Witness ==
    /\ thrown # {}
    /\ messageQueue = <<>>
    /\ processing = FALSE
    /\ \E n \in appended : <<"queue", n>> \notin thrown /\ RepliedOnce(n)


\* C16: while an 'invoke' envelope stays unanswered at the worker the state
\* stays 'thinking', no further queued message is dequeued and dispatched,
\* and no compaction request is accepted.
C16_StuckWorkerBlocks ==
    [][(\E e \in worker \cap worker' : e.type = "invoke") =>
          /\ state' = "thinking"
          /\ \A inv \in invoking' \ invoking : inv.src \notin {"queue", "compact"}]_vars


\* C17: the 'Scheduler' message of a scheduler-originated invocation is saved
\* before its 'invoke' envelope is posted, and when the terminal envelope of
\* that invocation has been fully handled the chime has sounded exactly once
\* for it and its group is no longer in the pending-chime set.
C17_ScheduledChime ==
    [][/\ \A i \in DOMAIN posted' :
            posted'[i].src = "sched" =>
               /\ Count(saves', <<"sched", posted'[i].tag>>) = 1
               /\ <<"sched", posted'[i].tag>> \in posted'[i].messages
       /\ \A f \in DOMAIN finished' :
            (f.tag[1] = "sched" /\ Count(finished', f) > Count(finished, f)) =>
               /\ Count(chimes', f.groupId) = Count(chimes, f.groupId) + 1
               /\ f.groupId \notin pendingScheduledTasks']_vars

\* the invocations started for group g whose terminal envelope has not been
\* fully handled
Undelivered(g) ==
    {inv.tag : inv \in {i \in invoking : i.groupId = g /\ i.src # "compact"}}
    \cup {e.tag : e \in {x \in worker : x.groupId = g /\ x.type = "invoke"}}
    \cup {d.tag : d \in {x \in delivering : x.groupId = g /\ x.type = "invoke"}}

\* C18: g is in the pending-chime set iff the latest undelivered invocation
\* for g came from the scheduler.  Stated for the cases that do not depend on
\* which invocation is the latest: if every undelivered invocation for g came
\* from the scheduler g is in the set, and if none did g is not.
C18_PendingIffScheduled ==
    \A g \in Groups :
        /\ (Undelivered(g) # {} /\ \A t \in Undelivered(g) : t[1] = "sched")
              => g \in pendingScheduledTasks
        /\ (\A t \in Undelivered(g) : t[1] # "sched")
              => g \notin pendingScheduledTasks


\* C19: an emit invokes every callback registered for the event kind, whether
\* or not one of them throws, and no exception reaches the caller of emit.
C19_EmitIsolatesHandlers ==
    [][(listeners' = listeners /\ <<called', raised'>> # <<called, raised>>) =>
          /\ Range(called') = Range(listeners)
          /\ ~raised']_vars


\* C20: whenever no setter call is in progress, every cached configuration
\* value equals the persisted one (the key through its stored, encrypted
\* form), also after a setter whose write failed.
C20_CacheEqualsPersisted ==
    setting = {} =>
        /\ provider = config.provider
        /\ apiKey = decryptValue(config.apiKey)
        /\ ollamaUrl = config.ollamaUrl
        /\ assistantName = config.assistantName


\* no handler is suspended and the worker holds no envelope
Quiescent == saving = {} /\ invoking = {} /\ worker = {} /\ delivering = {}

\* C21: a rejected saveMessage or router.send during ingestion or delivery
\* never escapes as an unhandled rejection, and once every handler has run to
\* its end the coordinator is idle with nothing left in the queue.
C21_FailuresHandled ==
    /\ unhandled = {}
    /\ Quiescent => state = "idle" /\ messageQueue = <<>>

\* (used to locate the stuck states) a failure has left the coordinator at
\* rest with the state 'thinking' or a queued message
C21_NeverStuck ==
    (unhandled # {} /\ Quiescent) => state = "idle" /\ messageQueue = <<>>


\* C22: the channel the router resolves is determined by the group id's prefix
\* alone ('tg:' the Telegram getter's value, 'bsky:' the Bluesky one, 'mx:' the
\* Matrix one, anything else the browser channel); send and setTyping call
\* exactly the resolved adapter, and when it is absent they call none and do
\* not throw.
C22_RouterResolution ==
    probe.op \in {"send", "setTyping"} =>
        LET g == probe.groupId
            tg == StartsWith(g, <<"t", "g", ":">>)
            bsky == StartsWith(g, <<"b", "s", "k", "y", ":">>)
            matrix == StartsWith(g, <<"m", "x", ":">>)
        IN  /\ tg => probe.channel = probe.telegram
            /\ bsky => probe.channel = probe.bluesky
            /\ matrix => probe.channel = probe.matrix
            /\ ~(tg \/ bsky \/ matrix) => probe.channel = "browser"
            /\ probe.channel = NULL => probe.calls = <<>>
            /\ probe.channel # NULL => probe.calls = <<probe.channel>>
            /\ ~probe.threw

C22_Witness ==
    /\ probe.op = "setTyping"
    /\ probe.groupId = <<"m", "x", ":", "1">>
    /\ probe.matrix = NULL /\ probe.telegram = "telegram"
    /\ probe.calls = <<>> /\ ~probe.threw


\* a complete <internal>...</internal> span occurs in s
ContainsSpan(s) ==
    LET a == IndexOf(s, INTERNAL_OPEN, 1)
    IN  a # 0 /\ IndexOf(s, INTERNAL_CLOSE, a + Len(INTERNAL_OPEN)) # 0

\* C23: stripping is idempotent and complete: the output of formatOutbound is
\* a fixed point of formatOutbound and holds no complete internal span.
C23_StripIdempotent ==
    probe.op = "formatOutbound" =>
        /\ formatOutbound(probe.out) = probe.out
        /\ ~ContainsSpan(probe.out)


\* the character an entity at the head of s stands for, with the entity's
\* length; any other head stands for itself
EntityAt(s) ==
    IF StartsWith(s, AMP) THEN [c |-> "&", n |-> Len(AMP)]
    ELSE IF StartsWith(s, LT) THEN [c |-> "<", n |-> Len(LT)]
    ELSE IF StartsWith(s, GT) THEN [c |-> ">", n |-> Len(GT)]
    ELSE IF StartsWith(s, QUOT) THEN [c |-> "\"", n |-> Len(QUOT)]
    ELSE IF StartsWith(s, <<"&", "a", "p", "o", "s", ";">>) THEN [c |-> "'", n |-> 6]
    ELSE [c |-> Head(s), n |-> 1]

\* un-escaping, in one pass from the left
RECURSIVE UnescapeXml(_)
UnescapeXml(s) ==
    IF s = <<>> THEN <<>>
    ELSE <<EntityAt(s).c>> \o UnescapeXml(SubSeq(s, EntityAt(s).n + 1, Len(s)))

\* s from index i up to, not including, the next occurrence of the character c
UpTo(s, i, c) ==
    LET j == IndexOf(s, <<c>>, i)
    IN  SubSeq(s, i, (IF j = 0 THEN Len(s) + 1 ELSE j) - 1)

\* reading the document back: for each <message element in order, its sender
\* attribute (up to the closing quote) and its body (from the end of the start
\* tag up to the next tag), both un-escaped
RECURSIVE ParseMessages(_, _)
ParseMessages(xml, from) ==
    LET open == <<"<", "m", "e", "s", "s", "a", "g", "e", " ", "s", "e", "n", "d", "e", "r", "=", "\"">>
        a == IndexOf(xml, open, from)
        rawSender == UpTo(xml, a + Len(open), "\"")
        afterSender == a + Len(open) + Len(rawSender) + 1
        bodyAt == afterSender + Len(UpTo(xml, afterSender, ">")) + 1
        rawBody == UpTo(xml, bodyAt, "<")
    IN  IF a = 0 THEN <<>>
        ELSE <<[sender |-> UnescapeXml(rawSender), content |-> UnescapeXml(rawBody)]>>
             \o ParseMessages(xml, bodyAt + Len(rawBody))

\* C24: reading back the document formatMessagesXml produces and un-escaping
\* each message's sender attribute and body recovers the senders and contents
\* of the input list, in order.
C24_XmlRoundTrip ==
    probe.op = "formatMessagesXml" =>
        ParseMessages(probe.out, 1) =
            [i \in DOMAIN probe.messages |->
                [sender |-> probe.messages[i].sender,
                 content |-> probe.messages[i].content]]

C24_Witness ==
    /\ probe.op = "formatMessagesXml"
    /\ Len(probe.messages) = 2
    /\ probe.messages[1].sender = <<"a", "&">>
    /\ probe.messages[2].content = <<"&", "l", "t", ";", "\n">>
    /\ Len(ParseMessages(probe.out, 1)) = 2


\* C25: newSession(g) removes exactly the stored messages of group g, emits
\* one 'session-reset' event for g, and changes nothing else: configuration,
\* other groups' history, the queue, the processing flag, the pending-chime
\* set, the state, and the invocations and deliveries in progress.
C25_NewSessionFrame ==
    [][resets' # resets =>
        \E g \in Groups :
            /\ resets' = Bump(resets, g)
            /\ db' = {m \in db : m.groupId # g}
            /\ UNCHANGED <<messageQueue, processing, pendingScheduledTasks, state,
                           cfgVars, storeVars, saving, invoking, worker,
                           delivering>>]_vars

C25_Witness ==
    /\ Count(resets, DEFAULT_GROUP_ID) = 1
    /\ \E m \in DOMAIN saves : m[1] = "sched" /\ m \notin {x.id : x \in db}
    /\ History(DEFAULT_GROUP_ID) = {}
    /\ History(TG_GROUP) # {}
    /\ state = "thinking"
    /\ pendingScheduledTasks # {}


\* C26: shutdown stops the scheduler and the adapters and terminates the
\* worker in one step that changes nothing else (it neither waits for
\* outstanding invocations nor drains the queue); afterwards no scheduler tick
\* and no Telegram message arrives, and no envelope is taken from the worker.
C26_Shutdown ==
    /\ [](down.scheduler => down.adapters /\ down.worker)
    /\ [][(~down.scheduler /\ down'.scheduler) =>
            UNCHANGED <<state, messageQueue, processing, pendingScheduledTasks,
                        db, saving, invoking, worker, delivering, posted,
                        finished>>]_vars
    /\ [][down.scheduler =>
            /\ nsched' = nsched
            /\ worker \subseteq worker'
            /\ finished' # finished => delivering' # delivering
            /\ \A m \in saving' \ saving : m.channel # "telegram"]_vars

C26_Witness ==
    /\ down.worker
    /\ \E e \in worker : e.src = "queue"
    /\ saving = {} /\ invoking = {} /\ delivering = {}
    /\ state = "thinking"


\* C27: whatever start and stop calls are made, overlapping or not, at most
\* one Matrix client holds a registered timeline listener, and the channel is
\* running exactly when the last call to complete was a successful start.
C27_MatrixIdempotent ==
    /\ Cardinality(mx.live) <= 1
    /\ mx.last # "none" => (mx.running <=> mx.last = "start")

\* (used to tell the two parts apart) the first part of C27 alone
C27_OneLiveClient == Cardinality(mx.live) <= 1


\* C28: a scheduler tick can fire in every state, whatever the processing flag
\* and the queue hold; it starts an invocation at once (state 'thinking', a
\* new suspended invokeAgent call of the scheduler's) and leaves the queue and
\* the flag as they are.
C28_SchedulerBypass ==
    /\ [](\A g \in Groups : ENABLED SchedulerFire(g))
    /\ [][nsched' # nsched =>
            /\ messageQueue' = messageQueue
            /\ processing' = processing
            /\ state' = "thinking"
            /\ \E inv \in invoking' \ invoking :
                  inv.src = "sched" /\ inv.msg = nsched'
            /\ invoking \subseteq invoking']_vars

\* an 'invoke' envelope of the scheduler's and one of the live chat are
\* outstanding at the worker together
C28_Witness ==
    \E e1, e2 \in worker :
        /\ e1.type = "invoke" /\ e1.src = "sched"
        /\ e2.type = "invoke" /\ e2.src = "queue"


\* the messages taken from the queue whose 'invoke' envelope is not yet posted
InDispatch == {inv \in invoking : inv.src = "queue"}

\* C29: a processQueue call that finds the flag set or the queue empty (such
\* a call is made by enqueue after its save; the finally block calls only with
\* the flag clear and a non-empty queue) changes nothing; at most one message is between its removal from the queue and the
\* post of its envelope, and the flag is set exactly while one is, so it is
\* clear again as soon as that dispatch attempt has ended, by a post or by an
\* exception.
C29_ProcessQueueGate ==
    /\ [](Cardinality(InDispatch) <= 1 /\ (processing <=> InDispatch # {}))
    /\ [][(db' # db /\ saving \ saving' # {} /\ (processing \/ messageQueue = <<>>)) =>
            UNCHANGED <<messageQueue, state, processing, invoking, worker,
                        posted, pendingScheduledTasks, errors>>]_vars

C29_Witness ==
    /\ processing
    /\ messageQueue # <<>>
    /\ saving = {}
    /\ \A i \in DOMAIN messageQueue : messageQueue[i].id \in {m.id : m \in db}
    /\ thrown = {}


\* C30: handling a non-terminal envelope leaves the state, the queue, the
\* processing flag, the pending-chime set and the stored messages unchanged,
\* and the state goes back to 'idle' only in a step that finishes the handling
\* of a 'response', an 'error' or a 'compact-done' envelope.
C30_ProgressFrame ==
    /\ [][telemetry' # telemetry =>
            UNCHANGED <<state, messageQueue, processing, pendingScheduledTasks,
                        db, saving, worker, delivering>>]_vars
    /\ [][(state # "idle" /\ state' = "idle") =>
            \E f \in DOMAIN finished' :
                /\ Count(finished', f) = Count(finished, f) + 1
                /\ f.kind \in {"response", "error", "compact-done"}]_vars

C30_Witness ==
    /\ Count(telemetry, "task-created") = 1
    /\ state = "thinking"
    /\ worker # {}



\* C31: when the delivery of a scheduler-originated invocation for group g
\* finishes while another scheduler-originated invocation for g is still
\* undelivered, this first delivery plays the one chime the two share and
\* leaves g out of the pending-chime set.
C31_SharedChime ==
    [][\A f \in DOMAIN finished' :
          (/\ f.tag[1] = "sched"
           /\ Count(finished', f) > Count(finished, f)
           /\ \E t \in Undelivered(f.groupId) : t[1] = "sched" /\ t # f.tag) =>
             /\ Count(chimes', f.groupId) = Count(chimes, f.groupId) + 1
             /\ f.groupId \notin pendingScheduledTasks']_vars



\* C32: an emit invokes exactly the callbacks that were registered for the
\* event kind when emit was called, each once and in registration order: a
\* callback subscribed by another callback during the publish is not invoked
\* for it, and one unsubscribed during the publish still is.
C32_EmitSnapshot ==
    probe.op = "emit" => probe.called = probe.registered



\* the document's fields as written: for each <message element in order, its
\* sender attribute (up to the closing quote) and its body (up to the next tag)
RECURSIVE RawFields(_, _)
RawFields(xml, from) ==
    LET open == <<"<", "m", "e", "s", "s", "a", "g", "e", " ", "s", "e", "n", "d", "e", "r", "=", "\"">>
        a == IndexOf(xml, open, from)
        rawSender == UpTo(xml, a + Len(open), "\"")
        afterSender == a + Len(open) + Len(rawSender) + 1
        bodyAt == afterSender + Len(UpTo(xml, afterSender, ">")) + 1
        rawBody == UpTo(xml, bodyAt, "<")
    IN  IF a = 0 THEN <<>>
        ELSE <<rawSender, rawBody>> \o RawFields(xml, bodyAt + Len(rawBody))

\* no reserved character stands for itself in s: every & opens an entity
Escaped(s) ==
    \A i \in DOMAIN s :
        /\ s[i] \notin {"<", ">", "\"", "'"}
        /\ s[i] = "&" => EntityAt(SubSeq(s, i, Len(s))).n > 1

\* C33: in the document formatMessagesXml produces, the sender attribute and
\* the body of every message hold none of the five reserved characters
\* & < > " ' unescaped, and there are two such fields per input message.
C33_FiveEscaped ==
    probe.op = "formatMessagesXml" =>
        /\ Len(RawFields(probe.out, 1)) = 2 * Len(probe.messages)
        /\ \A i \in DOMAIN RawFields(probe.out, 1) : Escaped(RawFields(probe.out, 1)[i])



\* C34: the history read for the 'invoke' envelope of a queued message holds
\* that message: every envelope posted for a message taken from the queue
\* lists the message's own stored record.
C34_TriggerInHistory ==
    \A i \in QueuePosts : <<"msg", posted[i].msg>> \in posted[i].messages



\* C35: every step that posts an 'invoke' or 'compact' envelope to the worker
\* is taken while the provider is configured.
C35_PostOnlyConfigured ==
    [][Len(posted') > Len(posted) => isConfigured]_vars



\* C36: in state 'thinking' an invocation or a compaction is being prepared
\* (between setState('thinking') and its post) or its envelope is outstanding
\* at the worker or being handled.
C36_ThinkingHasWork ==
    state = "thinking" => invoking # {} \/ Outstanding # {}



\* C37: every message appended to the queue is eventually removed from it,
\* with no further inbound message needed: a queue that holds messages is
\* eventually empty, arrivals being bounded.
C37_QueueDrains ==
    (messageQueue # <<>>) ~> (messageQueue = <<>>)



\* the messages the coordinator created itself
OwnMessages == {m \in db : m.sender # "user"}

\* C38: the channel kind stamped on a message the coordinator created names
\* the channel Router.findChannel resolves for the message's group id: over
\* any combination of loaded and absent optional adapters the router resolves
\* either no channel or the stamped one, and with every adapter loaded it
\* resolves the stamped one.
C38_StampMatchesRouter ==
    \A m \in OwnMessages :
        /\ Router_findChannel(m.groupId, "telegram", "bluesky", "matrix") = m.channel
        /\ \A getTelegram \in Getters("telegram"), getBluesky \in Getters("bluesky"),
              getMatrix \in Getters("matrix") :
              Router_findChannel(m.groupId, getTelegram, getBluesky, getMatrix)
                 \in {NULL, m.channel}
        /\ findChannel(m.groupId) \in {NULL, m.channel}

C38_Witness ==
    /\ \E m \in OwnMessages : m.sender = "Scheduler" /\ m.channel = "matrix"
    /\ \E m \in OwnMessages : m.isFromMe /\ m.channel = "matrix"
    /\ state = "idle"



\* C39: every Telegram adapter that has been started and not stopped is the
\* one held in _telegram, which is what the router resolves.
C39_StartedIsRegistered ==
    tgs.started \subseteq tgs.current



\* C40: when the worker answers a compaction for group g with an 'error'
\* envelope, handling it appends the error reply to the stored messages and
\* removes none, and the step that finishes the handling changes no stored
\* message and leaves the state 'idle'.
C40_CompactErrorKeepsHistory ==
    [][/\ \A d \in delivering' \ delivering :
            (d.type = "compact" /\ d.kind = "error") =>
               /\ \E m \in db' : /\ db' = db \cup {m}
                                 /\ m.id = <<"reply", d.tag>>
                                 /\ m.groupId = d.groupId
                                 /\ m.content = ReplyText("error")
               /\ History(d.groupId) \subseteq History(d.groupId)'
       /\ \A d \in delivering \ delivering' :
            (d.type = "compact" /\ d.kind = "error") =>
               db' = db /\ state' = "idle"]_vars

C40_Witness ==
    /\ \E f \in DOMAIN finished : f.tag[1] = "compact" /\ f.kind = "error"
    /\ \E m \in History(DEFAULT_GROUP_ID) : m.sender = "user"
    /\ \E m \in History(DEFAULT_GROUP_ID) : m.content = ReplyText("error")
    /\ \A m \in db : m.id[1] # "summary"
    /\ state = "idle"

=============================================================================
